---- MODULE Spec2Model ----
(***************************************************************************)
(* Model of the grid path-finding engine of lob-sdk: the AStar class       *)
(* (src/src/a-star/a-star.ts) and the PriorityQueue it uses                *)
(* (src/unnamed/part_005).                                                 *)
(*                                                                         *)
(* Numbers.  The source computes g, h and f in floating point with         *)
(* DIAGONAL_COST = 1.41421356237.  The model keeps them as integers in     *)
(* units of 1/Unit: a step cost c contributes c * Unit on a cardinal move  *)
(* and c * DIAGONAL_COST on a diagonal move, with DIAGONAL_COST = 141421   *)
(* and Unit = 100000.  Step costs are integers, Infinity is the value      *)
(* the source compares with "=== Infinity".                                *)
(* Sums of integers are exact where the source rounds; on the grids of     *)
(* Spec and for the queries of TestSpec the results and the numbers of     *)
(* getStepCost invocations are those of the source run in floating point.  *)
(*                                                                         *)
(* References.  A Node object is named by the value nodePoolIndex had when *)
(* getNode handed it out (the index of its slot in nodePool while the pool *)
(* retains it); parent = Null is the null reference.  A CachedPath object  *)
(* is named by the exact-cache key it is stored under in pathCache, so the *)
(* subpath index holds, per start key, the keys of its members in          *)
(* insertion order (a JavaScript Set iterates in insertion order).         *)
(* An array is modelled by its contents.  Which array object a value       *)
(* stands for is recorded where the source can share one: the entry field  *)
(* copied says that the entry's path is an array of its own (pathCopy),    *)
(* not the engine's reused pathArray, and the result field shared says     *)
(* that the array findPath returned is the cached entry's path array       *)
(* itself, not a new array.                                                *)
(***************************************************************************)
EXTENDS Integers, Sequences, FiniteSets, TLC

\* ------------------------------------------------------------------ bounds
MaxWidth == 3
MaxHeight == 2
MaxCalls == 2
MaxCost == 4
MaxOps == 6
MaxPriority == 2

\* --------------------------------------------------------------- constants
Unit == 100000
DIAGONAL_COST == 141421
PoolCap == 1000
TestWidth == 10
TestHeight == 10
TestEndX == 5
Infinity == 1000
Null == 0 - 1
Undefined == 0 - 2

VARIABLES
    width, height, maxKey, useDiagonals, neighborDirections, stepCostKind,
    pathCache, subpathCache,
    openList, openSet, closedSet, nodeMap,
    nodePool, nodePoolIndex, pathArray,
    last, numCalls,
    compareKind, queue, enqueued, dequeued, stale, clears, pqLast

config == <<width, height, maxKey, useDiagonals, neighborDirections, stepCostKind>>
caches == <<pathCache, subpathCache>>
scratch == <<openList, openSet, closedSet, nodeMap, nodePool, nodePoolIndex, pathArray>>
pq == <<compareKind, queue, enqueued, dequeued, stale, clears, pqLast>>
vars == <<config, caches, scratch, last, numCalls, pq>>

\* ------------------------------------------------------------------ helpers
Point(px, py) == [x |-> px, y |-> py]

Cells(w, h) == {Point(i, j) : i \in 0..(w - 1), j \in 0..(h - 1)}

MapSet(m, k, v) == (k :> v) @@ m

\* Array.prototype.slice for 0 <= begin: the elements with the indices begin
\* to end - 1, as far as the array has them.
slice(array, begin, end) ==
    SubSeq(array, begin + 1, IF end < Len(array) THEN end ELSE Len(array))

EmptyMap == << >>

CARDINAL_DIRECTIONS == << <<0, 0 - 1>>, <<0, 1>>, <<0 - 1, 0>>, <<1, 0>> >>

DIAGONAL_DIRECTIONS == << <<0 - 1, 0 - 1>>, <<1, 0 - 1>>, <<0 - 1, 1>>, <<1, 1>> >>

\* ----------------------------------------------------------- PriorityQueue
\* The comparator the queue was constructed with, named by compareKind:
\* "ascending" is the default (a, b) => a - b, which the engine's open list
\* uses too, and "descending" is (a, b) => b - a.
CompareKinds == {"ascending", "descending"}

\* compare with the two comparators exchanged: C15 fails.
compareExchanged(a, b) == IF compareKind = "descending" THEN a - b ELSE b - a

compare(a, b) == IF compareKind = "descending" THEN b - a ELSE a - b

Swap(items, i, j) ==
    [items EXCEPT ![i + 1] = items[j + 1], ![j + 1] = items[i + 1]]

\* heapifyUp that stops after one exchange: C39 fails.
heapifyUpOnce(items, index) ==
    LET parentIndex == (index - 1) \div 2
    IN  IF index > 0
           /\ compare(items[index + 1].priority, items[parentIndex + 1].priority) < 0
        THEN Swap(items, index, parentIndex)
        ELSE items

RECURSIVE heapifyUp(_, _)
heapifyUp(items, index) ==
    LET parentIndex == (index - 1) \div 2
    IN  IF index > 0
           /\ compare(items[index + 1].priority, items[parentIndex + 1].priority) < 0
        THEN heapifyUp(Swap(items, index, parentIndex), parentIndex)
        ELSE items

\* heapifyDown that never looks at the right child: C16 fails.
RECURSIVE heapifyDownLeftOnly(_, _)
heapifyDownLeftOnly(items, index) ==
    LET leftIndex == 2 * index + 1
        smallest == IF leftIndex < Len(items)
                       /\ compare(items[leftIndex + 1].priority, items[index + 1].priority) < 0
                    THEN leftIndex ELSE index
    IN  IF smallest # index
        THEN heapifyDownLeftOnly(Swap(items, index, smallest), smallest)
        ELSE items

RECURSIVE heapifyDown(_, _)
heapifyDown(items, index) ==
    LET leftIndex == 2 * index + 1
        rightIndex == 2 * index + 2
        s1 == IF leftIndex < Len(items)
                 /\ compare(items[leftIndex + 1].priority, items[index + 1].priority) < 0
              THEN leftIndex ELSE index
        smallest == IF rightIndex < Len(items)
                       /\ compare(items[rightIndex + 1].priority, items[s1 + 1].priority) < 0
                    THEN rightIndex ELSE s1
    IN  IF smallest # index
        THEN heapifyDown(Swap(items, index, smallest), smallest)
        ELSE items

enqueue(items, item, priority) ==
    heapifyUp(Append(items, [item |-> item, priority |-> priority]), Len(items))

isEmpty(items) == Len(items) = 0

\* dequeue that does not move the last entry to the root: C17 fails.
dequeueKeepingRoot(items) ==
    IF isEmpty(items) THEN [item |-> Undefined, items |-> items]
    ELSE LET root == items[1].item
             popped == SubSeq(items, 1, Len(items) - 1)
         IN  IF isEmpty(popped) THEN [item |-> root, items |-> popped]
             ELSE [item |-> root, items |-> heapifyDown(popped, 0)]

\* dequeue that answers an empty queue with null: C18 fails.
dequeueNullOnEmpty(items) ==
    IF isEmpty(items) THEN [item |-> Null, items |-> items]
    ELSE LET root == items[1].item
             lastEntry == items[Len(items)]
             popped == SubSeq(items, 1, Len(items) - 1)
         IN  IF isEmpty(popped) THEN [item |-> root, items |-> popped]
             ELSE [item |-> root,
                   items |-> heapifyDown([popped EXCEPT ![1] = lastEntry], 0)]

\* dequeue returns the removed item (Undefined on an empty queue) and the
\* backing array it leaves.
dequeue(items) ==
    IF isEmpty(items) THEN [item |-> Undefined, items |-> items]
    ELSE LET root == items[1].item
             lastEntry == items[Len(items)]
             popped == SubSeq(items, 1, Len(items) - 1)
         IN  IF isEmpty(popped) THEN [item |-> root, items |-> popped]
             ELSE [item |-> root,
                   items |-> heapifyDown([popped EXCEPT ![1] = lastEntry], 0)]

\* clear that sets the length to 1 when there are entries: C19 fails.
clearKeepingRoot(items) == SubSeq(items, 1, IF Len(items) > 0 THEN 1 ELSE 0)

clear(items) == << >>

\* ------------------------------------------------------------ environment
\* The step-cost function the engine was constructed with, named by
\* stepCostKind; each is a total function of two points.
\*   uniform  every step costs 1
\*   blocked  every step is impassable
\*   wall     entering a cell of column 0 below the top row is impassable
\*   road     a one-way road runs down column 0, along the bottom row and up
\*            the last column; a step along it costs 1, any other MaxCost
\*   free     every step costs 0
\*   refund   every step costs -1
RoadNext(from, to) ==
    \/ from.x = 0 /\ to.x = 0 /\ to.y = from.y + 1
    \/ from.y = height - 1 /\ to.y = height - 1 /\ to.x = from.x + 1
    \/ from.x = width - 1 /\ to.x = width - 1 /\ to.y = from.y - 1 /\ width > 1

StepCostKinds == {"uniform", "blocked", "wall", "road"}

\* With "free", where every step costs 0, the kinds cover what the
\* constructor's parameter admits: non-negative numbers and Infinity.
AdmittedKinds == StepCostKinds \cup {"free"}

\* With "refund", where every step costs -1, the kinds cover what the
\* parameter's type admits: getStepCost may return any number.
NumberKinds == AdmittedKinds \cup {"refund"}

getStepCost(from, to) ==
    CASE stepCostKind = "uniform" -> 1
      [] stepCostKind = "free" -> 0
      [] stepCostKind = "refund" -> 0 - 1
      [] stepCostKind = "blocked" -> Infinity
      [] stepCostKind = "wall" -> IF to.x = 0 /\ to.y > 0 THEN Infinity ELSE 1
      [] stepCostKind = "road" -> IF RoadNext(from, to) THEN 1 ELSE MaxCost

\* -------------------------------------------------------------------- AStar
\* The mutable part of an engine as one record, so that findPath can be
\* applied to any engine state.
Engine ==
    [pathCache |-> pathCache, subpathCache |-> subpathCache,
     openList |-> openList, openSet |-> openSet, closedSet |-> closedSet,
     nodeMap |-> nodeMap, nodePool |-> nodePool, nodePoolIndex |-> nodePoolIndex,
     pathArray |-> pathArray]

\* The mutable part of an engine as the constructor leaves it (lines 51-65
\* and 84-87).
NewEngine ==
    [pathCache |-> EmptyMap, subpathCache |-> EmptyMap,
     openList |-> << >>, openSet |-> {}, closedSet |-> {},
     nodeMap |-> EmptyMap, nodePool |-> << >>, nodePoolIndex |-> 0,
     pathArray |-> << >>]

NewNode(px, py) == [x |-> px, y |-> py, g |-> 0, h |-> 0, f |-> 0, parent |-> Null]

heuristic(x1, y1, x2, y2) ==
    LET dx == IF x1 > x2 THEN x1 - x2 ELSE x2 - x1
        dy == IF y1 > y2 THEN y1 - y2 ELSE y2 - y1
    IN  IF dx > dy
        THEN dx * Unit + (DIAGONAL_COST - Unit) * dy
        ELSE dy * Unit + (DIAGONAL_COST - Unit) * dx

\* encodeKey that multiplies by the height: C36 fails on a grid that is
\* wider than it is high.
encodeKeyByHeight(px, py) == py * height + px

encodeKey(px, py) == py * width + px

getKey(node) == node.y * width + node.x

\* isValidPoint without the upper bound on x: C7 fails.
isValidPointNoWidth(point) ==
    /\ point.x >= 0
    /\ point.y >= 0
    /\ point.y < height

isValidPoint(point) ==
    /\ point.x >= 0
    /\ point.x < width
    /\ point.y >= 0
    /\ point.y < height

\* The search's working state s carries the scratch fields of the engine,
\* the nodes handed out beyond the retained pool (overflow) and the number
\* of getStepCost invocations made so far (calls).
NodeOf(s, id) ==
    IF id < Len(s.nodePool) THEN s.nodePool[id + 1] ELSE s.overflow[id]

SetNode(s, id, node) ==
    IF id < Len(s.nodePool)
    THEN [s EXCEPT !.nodePool[id + 1] = node]
    ELSE [s EXCEPT !.overflow = MapSet(s.overflow, id, node)]

\* getNode that retains every node it creates: C37 fails.
getNodeUncapped(s, px, py) ==
    IF s.nodePoolIndex < Len(s.nodePool)
    THEN [s EXCEPT !.nodePool[s.nodePoolIndex + 1] = NewNode(px, py),
                   !.nodePoolIndex = s.nodePoolIndex + 1]
    ELSE [s EXCEPT !.nodePool = Append(s.nodePool, NewNode(px, py)),
                   !.nodePoolIndex = s.nodePoolIndex + 1]

\* getNode that leaves g, h, f and parent of a reused record as the
\* earlier search wrote them: C38 fails.
getNodeStale(s, px, py) ==
    IF s.nodePoolIndex < Len(s.nodePool)
    THEN [s EXCEPT !.nodePool[s.nodePoolIndex + 1].x = px,
                   !.nodePool[s.nodePoolIndex + 1].y = py,
                   !.nodePoolIndex = s.nodePoolIndex + 1]
    ELSE IF Len(s.nodePool) < PoolCap
         THEN [s EXCEPT !.nodePool = Append(s.nodePool, NewNode(px, py)),
                        !.nodePoolIndex = s.nodePoolIndex + 1]
         ELSE [s EXCEPT !.overflow = MapSet(s.overflow, s.nodePoolIndex, NewNode(px, py)),
                        !.nodePoolIndex = s.nodePoolIndex + 1]

\* getNode returns the working state after the acquisition; the acquired
\* node is the one named s.nodePoolIndex.
getNode(s, px, py) ==
    IF s.nodePoolIndex < Len(s.nodePool)
    THEN [s EXCEPT !.nodePool[s.nodePoolIndex + 1] = NewNode(px, py),
                   !.nodePoolIndex = s.nodePoolIndex + 1]
    ELSE IF Len(s.nodePool) < PoolCap
         THEN [s EXCEPT !.nodePool = Append(s.nodePool, NewNode(px, py)),
                        !.nodePoolIndex = s.nodePoolIndex + 1]
         ELSE [s EXCEPT !.overflow = MapSet(s.overflow, s.nodePoolIndex, NewNode(px, py)),
                        !.nodePoolIndex = s.nodePoolIndex + 1]

\* neighborsFrom with the bound x <= width in place of x < width: C13 fails.
RECURSIVE neighborsFromWide(_, _, _)
neighborsFromWide(nodeX, nodeY, i) ==
    IF i > Len(neighborDirections) THEN << >>
    ELSE LET px == nodeX + neighborDirections[i][1]
             py == nodeY + neighborDirections[i][2]
             rest == neighborsFromWide(nodeX, nodeY, i + 1)
         IN  IF px >= 0 /\ px <= width /\ py >= 0 /\ py < height
             THEN <<Point(px, py)>> \o rest
             ELSE rest

\* The loop of getNeighbors (lines 295-304) from direction i on.
RECURSIVE neighborsFrom(_, _, _)
neighborsFrom(nodeX, nodeY, i) ==
    IF i > Len(neighborDirections) THEN << >>
    ELSE LET px == nodeX + neighborDirections[i][1]
             py == nodeY + neighborDirections[i][2]
             rest == neighborsFrom(nodeX, nodeY, i + 1)
         IN  IF px >= 0 /\ px < width /\ py >= 0 /\ py < height
             THEN <<Point(px, py)>> \o rest
             ELSE rest

\* getNeighbors with the direction loop started one entry late: C5 fails.
getNeighborsFromSecond(node) == neighborsFrom(node.x, node.y, 2)

getNeighbors(node) == neighborsFrom(node.x, node.y, 1)

RECURSIVE reversePath(_, _)
reversePath(s, id) ==
    IF id = Null THEN << >>
    ELSE LET node == NodeOf(s, id)
         IN  Append(reversePath(s, node.parent), Point(node.x, node.y))

reconstructPath(s, id) == reversePath(s, id)

\* Lines 322-345: reconstructPath builds the path in the reused pathArray;
\* whoever holds that array object sees the new contents.
intoPathArray(eng, path) ==
    [eng EXCEPT
        !.pathArray = path,
        !.pathCache =
            IF \E k \in DOMAIN eng.pathCache : ~eng.pathCache[k].copied
            THEN [k \in DOMAIN eng.pathCache |->
                     IF eng.pathCache[k].copied THEN eng.pathCache[k]
                     ELSE [eng.pathCache[k] EXCEPT !.path = path]]
            ELSE eng.pathCache]

RECURSIVE indexFrom(_, _, _)
indexFrom(path, i, map) ==
    IF i > Len(path) THEN map
    ELSE indexFrom(path, i + 1, MapSet(map, encodeKey(path[i].x, path[i].y), i - 1))

\* pointToIndexOf that starts at the second point: C28 fails.
pointToIndexSkippingStart(path) == indexFrom(path, 2, EmptyMap)

\* Lines 198-202: the index map of pathCopy.
pointToIndexOf(path) == indexFrom(path, 1, EmptyMap)

\* Lines 236-241: the node of the neighbor cell, taken from the pool when
\* the cell has none yet.
ensureNode(s, neighborX, neighborY) ==
    IF encodeKey(neighborX, neighborY) \in DOMAIN s.nodeMap THEN s
    ELSE [getNode(s, neighborX, neighborY) EXCEPT
             !.nodeMap = MapSet(s.nodeMap, encodeKey(neighborX, neighborY), s.nodePoolIndex)]

\* The record of one update of a node that is in the open set: s is the
\* working state before lines 263-271 and next the state after them;
\* reopened counts these updates and requeued the heap entries they added.
reopen(s, next) ==
    [next EXCEPT !.reopened = s.reopened + 1,
                 !.requeued = s.requeued + (Len(next.openList) - Len(s.openList))]

\* improve that enqueues the neighbor also when it is in the open set, so
\* that the heap holds a cell twice: C22 fails.
improveRequeueing(s, currentId, neighborId, neighborKey, tentativeG, h, inOpenList) ==
    LET updated == [NodeOf(s, neighborId) EXCEPT !.parent = currentId, !.g = tentativeG,
                                                 !.h = h, !.f = tentativeG + h]
    IN  [SetNode(s, neighborId, updated) EXCEPT
            !.openSet = s.openSet \cup {neighborKey},
            !.openList = enqueue(s.openList, neighborId, updated.f)]

\* Lines 263-271: the neighbor takes the better route through currentId and
\* is enqueued unless it is in the open set already.
improve(s, currentId, neighborId, neighborKey, tentativeG, h, inOpenList) ==
    LET updated == [NodeOf(s, neighborId) EXCEPT !.parent = currentId, !.g = tentativeG,
                                                 !.h = h, !.f = tentativeG + h]
    IN  IF ~inOpenList
        THEN [SetNode(s, neighborId, updated) EXCEPT
                 !.openSet = s.openSet \cup {neighborKey},
                 !.openList = enqueue(s.openList, neighborId, updated.f)]
        ELSE reopen(s, SetNode(s, neighborId, updated))

\* relax without the test for Infinity at lines 247-249: C6 fails.
relaxIgnoringInfinity(s, currentId, neighborPos, baseStepCost, endX, endY) ==
    LET currentNode == NodeOf(s, currentId)
        neighborKey == encodeKey(neighborPos.x, neighborPos.y)
        dx == neighborPos.x - currentNode.x
        dy == neighborPos.y - currentNode.y
        isDiagonal == (dx = 1 \/ dx = 0 - 1) /\ (dy = 1 \/ dy = 0 - 1)
        moveCost == baseStepCost * (IF isDiagonal THEN DIAGONAL_COST ELSE Unit)
        tentativeG == currentNode.g + moveCost
        inOpenList == neighborKey \in s.openSet
    IN  IF inOpenList /\ tentativeG >= NodeOf(s, s.nodeMap[neighborKey]).g
        THEN s
        ELSE improve(s, currentId, s.nodeMap[neighborKey], neighborKey, tentativeG,
                     heuristic(neighborPos.x, neighborPos.y, endX, endY), inOpenList)

\* relax that charges a diagonal move like a cardinal one: C34 fails.
relaxFlatDiagonal(s, currentId, neighborPos, baseStepCost, endX, endY) ==
    IF baseStepCost = Infinity THEN s
    ELSE
      LET currentNode == NodeOf(s, currentId)
          neighborKey == encodeKey(neighborPos.x, neighborPos.y)
          moveCost == baseStepCost * Unit
          tentativeG == currentNode.g + moveCost
          inOpenList == neighborKey \in s.openSet
      IN  IF inOpenList /\ tentativeG >= NodeOf(s, s.nodeMap[neighborKey]).g
          THEN s
          ELSE improve(s, currentId, s.nodeMap[neighborKey], neighborKey, tentativeG,
                       heuristic(neighborPos.x, neighborPos.y, endX, endY), inOpenList)

\* Lines 243-271 for one neighbor that has a node: s has counted the
\* getStepCost invocation that returned baseStepCost.
relax(s, currentId, neighborPos, baseStepCost, endX, endY) ==
    IF baseStepCost = Infinity THEN s
    ELSE
      LET currentNode == NodeOf(s, currentId)
          neighborKey == encodeKey(neighborPos.x, neighborPos.y)
          dx == neighborPos.x - currentNode.x
          dy == neighborPos.y - currentNode.y
          isDiagonal == (dx = 1 \/ dx = 0 - 1) /\ (dy = 1 \/ dy = 0 - 1)
          moveCost == baseStepCost * (IF isDiagonal THEN DIAGONAL_COST ELSE Unit)
          tentativeG == currentNode.g + moveCost
          inOpenList == neighborKey \in s.openSet
      IN  IF inOpenList /\ tentativeG >= NodeOf(s, s.nodeMap[neighborKey]).g
          THEN s
          ELSE improve(s, currentId, s.nodeMap[neighborKey], neighborKey, tentativeG,
                       heuristic(neighborPos.x, neighborPos.y, endX, endY), inOpenList)

\* The invocation of getStepCost at line 246, counted in s.calls, its
\* arguments recorded in s.probes.
callStepCost(s, currentId, neighborPos, endX, endY) ==
    relax([s EXCEPT !.calls = s.calls + 1,
                    !.probes = s.probes \cup {<<Point(NodeOf(s, currentId).x,
                                                     NodeOf(s, currentId).y),
                                               neighborPos>>}],
          currentId, neighborPos,
          getStepCost(Point(NodeOf(s, currentId).x, NodeOf(s, currentId).y), neighborPos),
          endX, endY)

\* visitNeighbor without the test of the closed set at line 232, so that a
\* closed cell is given a new parent: C33 fails.
visitNeighborReopening(s, currentId, neighborPos, endX, endY) ==
    callStepCost(ensureNode(s, neighborPos.x, neighborPos.y),
                 currentId, neighborPos, endX, endY)

\* The body of the neighbor loop (lines 227-271) for one neighbor.
visitNeighbor(s, currentId, neighborPos, endX, endY) ==
    IF encodeKey(neighborPos.x, neighborPos.y) \in s.closedSet THEN s
    ELSE callStepCost(ensureNode(s, neighborPos.x, neighborPos.y),
                      currentId, neighborPos, endX, endY)

\* The neighbor loop of findPath (lines 226-275) from position i of the
\* neighbors array, for the node currentId just closed.
RECURSIVE expandNeighbors(_, _, _, _, _, _)
expandNeighbors(s, currentId, neighbors, i, endX, endY) ==
    IF i > Len(neighbors) THEN s
    ELSE expandNeighbors(visitNeighbor(s, currentId, neighbors[i], endX, endY),
                         currentId, neighbors, i + 1, endX, endY)

\* What the search notes of the node id at the moment line 185 dequeues
\* it: its cell, its g and parent, and whether the cell was closed already.
poppedEntry(s, id) ==
    [key |-> getKey(NodeOf(s, id)), g |-> NodeOf(s, id).g,
     parent |-> NodeOf(s, id).parent,
     closed |-> getKey(NodeOf(s, id)) \in s.closedSet]

\* processNode with the end's coordinates swapped in the end test: C8 fails.
processNodeSwappedEnd(s, dq, end) ==
    LET currentNode == NodeOf(s, dq.item)
        currentKey == getKey(currentNode)
    IN  IF currentKey = encodeKey(end.y, end.x)
        THEN [s EXCEPT !.openList = dq.items, !.openSet = s.openSet \ {currentKey},
                       !.status = "found", !.endNode = dq.item,
                       !.popped = Append(s.popped, poppedEntry(s, dq.item))]
        ELSE expandNeighbors([s EXCEPT !.openList = dq.items,
                                       !.openSet = s.openSet \ {currentKey},
                                       !.closedSet = s.closedSet \cup {currentKey},
                                       !.popped = Append(s.popped, poppedEntry(s, dq.item))],
                             dq.item, getNeighbors(currentNode), 1, end.x, end.y)

\* Lines 185-225 once the entry dq has been dequeued.
processNode(s, dq, end) ==
    LET currentNode == NodeOf(s, dq.item)
        currentKey == getKey(currentNode)
    IN  IF currentKey = encodeKey(end.x, end.y)
        THEN [s EXCEPT !.openList = dq.items, !.openSet = s.openSet \ {currentKey},
                       !.status = "found", !.endNode = dq.item,
                       !.popped = Append(s.popped, poppedEntry(s, dq.item))]
        ELSE expandNeighbors([s EXCEPT !.openList = dq.items,
                                       !.openSet = s.openSet \ {currentKey},
                                       !.closedSet = s.closedSet \cup {currentKey},
                                       !.popped = Append(s.popped, poppedEntry(s, dq.item))],
                             dq.item, getNeighbors(currentNode), 1, end.x, end.y)

\* searchStep that processes the root of the heap without removing it:
\* C32 fails.
searchStepPeeking(s, end) ==
    IF isEmpty(s.openList) THEN [s EXCEPT !.status = "exhausted"]
    ELSE processNode(s, [item |-> s.openList[1].item, items |-> s.openList], end)

\* One iteration of the while loop of findPath (lines 184-276).  status is
\* "running" while the loop goes on, "found" when the end node was popped
\* (endNode names it) and "exhausted" when the open list ran empty.
searchStep(s, end) ==
    IF isEmpty(s.openList) THEN [s EXCEPT !.status = "exhausted"]
    ELSE processNode(s, dequeue(s.openList), end)

RECURSIVE searchLoop(_, _)
searchLoop(s, end) ==
    IF s.status # "running" THEN s ELSE searchLoop(searchStep(s, end), end)

\* Lines 178-182 on the working state s that has just acquired the start node.
enqueueStart(s, start, h) ==
    [SetNode(s, 0, [NodeOf(s, 0) EXCEPT !.h = h, !.f = NodeOf(s, 0).g + h]) EXCEPT
        !.nodeMap = MapSet(s.nodeMap, encodeKey(start.x, start.y), 0),
        !.openList = enqueue(s.openList, 0, NodeOf(s, 0).g + h),
        !.openSet = s.openSet \cup {encodeKey(start.x, start.y)}]

\* searchInit that leaves the closed set of the previous search in place:
\* C31 fails.
searchInitKeepingClosed(eng, start, end) ==
    enqueueStart(
        getNode([openList |-> clear(eng.openList), openSet |-> {},
                 closedSet |-> eng.closedSet,
                 nodeMap |-> EmptyMap, nodePool |-> eng.nodePool, overflow |-> EmptyMap,
                 nodePoolIndex |-> 0, calls |-> 0, status |-> "running",
                 endNode |-> Null, probes |-> {}, reopened |-> 0, requeued |-> 0,
                 popped |-> << >>],
                start.x, start.y),
        start, heuristic(start.x, start.y, end.x, end.y))

\* The working state after lines 166-182: scratch structures cleared, pool
\* cursor rewound, start node created and enqueued.
searchInit(eng, start, end) ==
    enqueueStart(
        getNode([openList |-> clear(eng.openList), openSet |-> {}, closedSet |-> {},
                 nodeMap |-> EmptyMap, nodePool |-> eng.nodePool, overflow |-> EmptyMap,
                 nodePoolIndex |-> 0, calls |-> 0, status |-> "running",
                 endNode |-> Null, probes |-> {}, reopened |-> 0, requeued |-> 0,
                 popped |-> << >>],
                start.x, start.y),
        start, heuristic(start.x, start.y, end.x, end.y))

NullResult == [found |-> FALSE, path |-> << >>]

\* subpathHit that returns the last member holding endKey: C26 fails.
RECURSIVE subpathHitLatest(_, _, _, _)
subpathHitLatest(cache, startPaths, i, endKey) ==
    IF i > Len(startPaths) THEN Null
    ELSE LET later == subpathHitLatest(cache, startPaths, i + 1, endKey)
         IN  IF later # Null THEN later
             ELSE IF endKey \in DOMAIN cache[startPaths[i]].pointToIndex
                  THEN startPaths[i]
                  ELSE Null

\* The first member of startPaths (cache keys, insertion order) whose index
\* map holds endKey, or Null.
RECURSIVE subpathHit(_, _, _, _)
subpathHit(cache, startPaths, i, endKey) ==
    IF i > Len(startPaths) THEN Null
    ELSE IF endKey \in DOMAIN cache[startPaths[i]].pointToIndex
         THEN startPaths[i]
         ELSE subpathHit(cache, startPaths, i + 1, endKey)

\* exactAnswer that returns a copy of the cached array: C30 fails.
exactAnswerCopying(eng, cached) ==
    [eng |-> eng,
     result |-> IF cached.isNull THEN NullResult ELSE [found |-> TRUE, path |-> cached.path],
     calls |-> 0, served |-> "exact", shared |-> FALSE]

\* Lines 148-152: the answer from the exact-cache entry cached.
exactAnswer(eng, cached) ==
    [eng |-> eng,
     result |-> IF cached.isNull THEN NullResult ELSE [found |-> TRUE, path |-> cached.path],
     calls |-> 0, served |-> "exact", shared |-> ~cached.isNull]

\* subpathAnswer with slice(0, endIndex), one point short: C2 fails.
subpathAnswerShort(eng, cachedPath, endKey) ==
    [eng |-> eng,
     result |-> [found |-> TRUE,
                 path |-> slice(cachedPath.path, 0, cachedPath.pointToIndex[endKey])],
     calls |-> 0, served |-> "subpath", shared |-> FALSE]

\* subpathAnswer that stores the prefix it returns as an exact entry for
\* the pair: C27 fails.
subpathAnswerCaching(eng, cachedPath, endKey) ==
    [eng |-> [eng EXCEPT
                !.pathCache =
                    MapSet(eng.pathCache,
                           encodeKey(cachedPath.path[1].x, cachedPath.path[1].y) * maxKey
                               + endKey,
                           [isNull |-> FALSE,
                            path |-> slice(cachedPath.path, 0,
                                           cachedPath.pointToIndex[endKey] + 1),
                            copied |-> TRUE, pointToIndex |-> EmptyMap])],
     result |-> [found |-> TRUE,
                 path |-> slice(cachedPath.path, 0, cachedPath.pointToIndex[endKey] + 1)],
     calls |-> 0, served |-> "subpath", shared |-> FALSE]

\* Lines 158-162: the prefix of cachedPath that ends at endKey's index.
subpathAnswer(eng, cachedPath, endKey) ==
    [eng |-> eng,
     result |-> [found |-> TRUE,
                 path |-> slice(cachedPath.path, 0, cachedPath.pointToIndex[endKey] + 1)],
     calls |-> 0, served |-> "subpath", shared |-> FALSE]

\* storePath that keeps only the newest entry in each cache: C11 fails.
storePathEvicting(eng, pathCopy, startKey, cacheKey, calls) ==
    [eng |-> [eng EXCEPT
                !.pathCache = MapSet(EmptyMap, cacheKey,
                                     [isNull |-> FALSE, path |-> pathCopy, copied |-> TRUE,
                                      pointToIndex |-> pointToIndexOf(pathCopy)]),
                !.subpathCache = MapSet(EmptyMap, startKey, <<cacheKey>>)],
     result |-> [found |-> TRUE, path |-> pathCopy],
     calls |-> calls, served |-> "search", shared |-> TRUE]

\* storePath that returns the path without caching it: C4 fails.
storePathForgets(eng, pathCopy, startKey, cacheKey, calls) ==
    [eng |-> eng, result |-> [found |-> TRUE, path |-> pathCopy],
     calls |-> calls, served |-> "search", shared |-> FALSE]

\* storePath that stores and returns the reused pathArray itself instead of
\* a copy: C29 fails.
storePathSharing(eng, pathCopy, startKey, cacheKey, calls) ==
    [eng |-> [eng EXCEPT
                !.pathCache = MapSet(eng.pathCache, cacheKey,
                                     [isNull |-> FALSE, path |-> eng.pathArray,
                                      copied |-> FALSE,
                                      pointToIndex |-> pointToIndexOf(eng.pathArray)]),
                !.subpathCache =
                    MapSet(eng.subpathCache, startKey,
                           Append(IF startKey \in DOMAIN eng.subpathCache
                                  THEN eng.subpathCache[startKey] ELSE << >>,
                                  cacheKey))],
     result |-> [found |-> TRUE, path |-> eng.pathArray],
     calls |-> calls, served |-> "search", shared |-> TRUE]

\* storePath that leaves the subpath index as it was: C24 fails.
storePathExactOnly(eng, pathCopy, startKey, cacheKey, calls) ==
    [eng |-> [eng EXCEPT
                !.pathCache = MapSet(eng.pathCache, cacheKey,
                                     [isNull |-> FALSE, path |-> pathCopy, copied |-> TRUE,
                                      pointToIndex |-> pointToIndexOf(pathCopy)])],
     result |-> [found |-> TRUE, path |-> pathCopy],
     calls |-> calls, served |-> "search", shared |-> TRUE]

\* Lines 190-216: the path is copied, indexed and stored in both caches.
storePath(eng, pathCopy, startKey, cacheKey, calls) ==
    [eng |-> [eng EXCEPT
                !.pathCache = MapSet(eng.pathCache, cacheKey,
                                     [isNull |-> FALSE, path |-> pathCopy, copied |-> TRUE,
                                      pointToIndex |-> pointToIndexOf(pathCopy)]),
                !.subpathCache =
                    MapSet(eng.subpathCache, startKey,
                           Append(IF startKey \in DOMAIN eng.subpathCache
                                  THEN eng.subpathCache[startKey] ELSE << >>,
                                  cacheKey))],
     result |-> [found |-> TRUE, path |-> pathCopy],
     calls |-> calls, served |-> "search", shared |-> TRUE]

\* storeNull that returns null without caching it: C9 fails.
storeNullForgets(eng, cacheKey, calls) ==
    [eng |-> eng, result |-> NullResult, calls |-> calls, served |-> "search", shared |-> FALSE]

\* Lines 278-280: the null result is stored in the exact cache.
storeNull(eng, cacheKey, calls) ==
    [eng |-> [eng EXCEPT
                !.pathCache = MapSet(eng.pathCache, cacheKey,
                                     [isNull |-> TRUE, path |-> << >>, copied |-> TRUE,
                                      pointToIndex |-> EmptyMap])],
     result |-> NullResult, calls |-> calls, served |-> "search", shared |-> FALSE]

\* The engine's scratch fields as the finished search s leaves them.
withScratch(eng, s) ==
    [eng EXCEPT !.openList = s.openList, !.openSet = s.openSet,
                !.closedSet = s.closedSet, !.nodeMap = s.nodeMap,
                !.nodePool = s.nodePool, !.nodePoolIndex = s.nodePoolIndex]

\* What the finished search s did: the argument pairs getStepCost was
\* invoked with, its updates of open nodes, and the nodes it dequeued, in
\* order.
searchTrace(s) ==
    [probes |-> s.probes, reopened |-> s.reopened, requeued |-> s.requeued,
     popped |-> s.popped]

NoTrace == [probes |-> {}, reopened |-> 0, requeued |-> 0, popped |-> << >>]

\* Lines 189-217 and 278-280 for the finished search s.
searchAnswer(eng, s, startKey, cacheKey) ==
    (IF s.status = "found"
     THEN storePath(intoPathArray(withScratch(eng, s), reconstructPath(s, s.endNode)),
                    reconstructPath(s, s.endNode), startKey, cacheKey, s.calls)
     ELSE storeNull(withScratch(eng, s), cacheKey, s.calls))
        @@ [trace |-> searchTrace(s)]

\* afterExactMiss without subpath reuse, every miss runs the search: C3 fails.
afterExactMissNoReuse(eng, start, end, startKey, endKey, hit) ==
    searchAnswer(eng, searchLoop(searchInit(eng, start, end), end), startKey,
                 startKey * maxKey + endKey)

\* Lines 154-281 on an exact-cache miss; hit is the subpath scan's result.
afterExactMiss(eng, start, end, startKey, endKey, hit) ==
    IF hit # Null
    THEN subpathAnswer(eng, eng.pathCache[hit], endKey)
    ELSE searchAnswer(eng, searchLoop(searchInit(eng, start, end), end), startKey,
                      startKey * maxKey + endKey)

\* findPath that scans the subpath index before it looks for the exact
\* entry: C25 fails.
findPathSubpathFirst(eng, start, end) ==
    IF ~isValidPoint(start) \/ ~isValidPoint(end)
    THEN [eng |-> eng, result |-> NullResult, calls |-> 0, served |-> "invalid",
          shared |-> FALSE]
    ELSE
      LET startKey == encodeKey(start.x, start.y)
          endKey == encodeKey(end.x, end.y)
          cacheKey == startKey * maxKey + endKey
          hit == IF startKey \in DOMAIN eng.subpathCache
                 THEN subpathHit(eng.pathCache, eng.subpathCache[startKey], 1, endKey)
                 ELSE Null
      IN  IF hit = Null /\ cacheKey \in DOMAIN eng.pathCache
          THEN exactAnswer(eng, eng.pathCache[cacheKey])
          ELSE afterExactMiss(eng, start, end, startKey, endKey, hit)

\* findPath applied to the engine state eng: the engine state it leaves,
\* the value it returns (found = FALSE is null), the number of getStepCost
\* invocations it made and the branch that answered.
findPath(eng, start, end) ==
    IF ~isValidPoint(start) \/ ~isValidPoint(end)
    THEN [eng |-> eng, result |-> NullResult, calls |-> 0, served |-> "invalid",
          shared |-> FALSE]
    ELSE
      LET startKey == encodeKey(start.x, start.y)
          endKey == encodeKey(end.x, end.y)
          cacheKey == startKey * maxKey + endKey
      IN  IF cacheKey \in DOMAIN eng.pathCache
          THEN exactAnswer(eng, eng.pathCache[cacheKey])
          ELSE afterExactMiss(eng, start, end, startKey, endKey,
                              IF startKey \in DOMAIN eng.subpathCache
                              THEN subpathHit(eng.pathCache, eng.subpathCache[startKey],
                                              1, endKey)
                              ELSE Null)

\* clearCache that also drops the node pool: C12 fails.
clearCacheDroppingPool(eng) ==
    [eng EXCEPT !.pathCache = EmptyMap, !.subpathCache = EmptyMap,
                !.nodePool = << >>, !.nodePoolIndex = 0]

\* clearCache that clears the subpath index only: C10 fails.
clearCacheSubpathOnly(eng) == [eng EXCEPT !.subpathCache = EmptyMap]

clearCache(eng) == [eng EXCEPT !.pathCache = EmptyMap, !.subpathCache = EmptyMap]

\* The calls a caller makes: from the origin to any cell, from the far
\* corner to itself and to the cells of the top row, and with one endpoint
\* just outside the grid on each of its four sides.
Origin == Point(0, 0)

FarCorner == Point(width - 1, height - 1)

Queries ==
    ({Origin} \X Cells(width, height))
        \cup ({FarCorner} \X {c \in Cells(width, height) : c.y = 0 \/ c = FarCorner})
        \cup {<<Point(0 - 1, 0), Origin>>, <<Point(0, height), FarCorner>>,
              <<Origin, Point(width, 0)>>, <<FarCorner, Point(0, 0 - 1)>>}

NoCall == [op |-> "none", start |-> Origin, end |-> Origin,
           result |-> NullResult, calls |-> 0, served |-> "none", shared |-> FALSE,
           trace |-> NoTrace]

\* ------------------------------------------------------------ specification
\* directionsFor that ignores the flag and always allows diagonals: C14 fails.
directionsForAll(flag) == CARDINAL_DIRECTIONS \o DIAGONAL_DIRECTIONS

\* Lines 79-81: the neighbor directions the constructor selects for its
\* useDiagonals argument.
directionsFor(flag) ==
    IF flag THEN CARDINAL_DIRECTIONS \o DIAGONAL_DIRECTIONS ELSE CARDINAL_DIRECTIONS

\* A PriorityQueue as its constructor leaves it, with nothing recorded of
\* its use.
NoOp == [op |-> "none", out |-> Undefined, before |-> 0]

NewQueue ==
    /\ queue = << >>
    /\ enqueued = << >>
    /\ dequeued = << >>
    /\ stale = {}
    /\ clears = 0
    /\ pqLast = NoOp

Init ==
    /\ width \in {1, MaxWidth}
    /\ height \in {1, MaxHeight}
    /\ maxKey = width * height
    /\ useDiagonals \in BOOLEAN
    /\ neighborDirections = directionsFor(useDiagonals)
    /\ stepCostKind \in StepCostKinds
    /\ pathCache = EmptyMap
    /\ subpathCache = EmptyMap
    /\ openList = << >>
    /\ openSet = {}
    /\ closedSet = {}
    /\ nodeMap = EmptyMap
    /\ nodePool = << >>
    /\ nodePoolIndex = 0
    /\ pathArray = << >>
    /\ last = NoCall
    /\ numCalls = 0
    /\ compareKind = "ascending"
    /\ NewQueue

SetEngine(eng) ==
    /\ pathCache' = eng.pathCache
    /\ subpathCache' = eng.subpathCache
    /\ openList' = eng.openList
    /\ openSet' = eng.openSet
    /\ closedSet' = eng.closedSet
    /\ nodeMap' = eng.nodeMap
    /\ nodePool' = eng.nodePool
    /\ nodePoolIndex' = eng.nodePoolIndex
    /\ pathArray' = eng.pathArray

FindPath(start, end) ==
    /\ numCalls < MaxCalls
    /\ \E r \in {findPath(Engine, start, end)} :
           /\ SetEngine(r.eng)
           /\ last' = [op |-> "findPath", start |-> start, end |-> end,
                       result |-> r.result, calls |-> r.calls, served |-> r.served,
                       shared |-> r.shared,
                       trace |-> IF r.served = "search" THEN r.trace ELSE NoTrace]
    /\ numCalls' = numCalls + 1
    /\ UNCHANGED <<config, pq>>

ClearCache ==
    /\ numCalls < MaxCalls
    /\ \E eng \in {clearCache(Engine)} : SetEngine(eng)
    /\ last' = [NoCall EXCEPT !.op = "clearCache"]
    /\ numCalls' = numCalls + 1
    /\ UNCHANGED <<config, pq>>

Next ==
    \/ \E q \in Queries : FindPath(q[1], q[2])
    \/ ClearCache

Spec == Init /\ [][Next]_vars

\* The engine constructed with any admitted step-cost function.
AdmittedInit ==
    /\ width \in {1, MaxWidth}
    /\ height \in {1, MaxHeight}
    /\ maxKey = width * height
    /\ useDiagonals \in BOOLEAN
    /\ neighborDirections = directionsFor(useDiagonals)
    /\ stepCostKind \in AdmittedKinds
    /\ pathCache = EmptyMap
    /\ subpathCache = EmptyMap
    /\ openList = << >>
    /\ openSet = {}
    /\ closedSet = {}
    /\ nodeMap = EmptyMap
    /\ nodePool = << >>
    /\ nodePoolIndex = 0
    /\ pathArray = << >>
    /\ last = NoCall
    /\ numCalls = 0
    /\ compareKind = "ascending"
    /\ NewQueue

AdmittedSpec == AdmittedInit /\ [][Next]_vars

\* An engine without diagonals on a uniform grid one cell wider and higher
\* than the largest of Spec, queried from the origin: the smallest grid on
\* which the paths to two ends pass through a common cell by different
\* routes.
WideInit ==
    /\ width = MaxWidth + 1
    /\ height = MaxHeight + 1
    /\ maxKey = width * height
    /\ useDiagonals = FALSE
    /\ neighborDirections = directionsFor(useDiagonals)
    /\ stepCostKind = "uniform"
    /\ pathCache = EmptyMap
    /\ subpathCache = EmptyMap
    /\ openList = << >>
    /\ openSet = {}
    /\ closedSet = {}
    /\ nodeMap = EmptyMap
    /\ nodePool = << >>
    /\ nodePoolIndex = 0
    /\ pathArray = << >>
    /\ last = NoCall
    /\ numCalls = 0
    /\ compareKind = "ascending"
    /\ NewQueue

WideNext ==
    \/ \E end \in Cells(width, height) : FindPath(Origin, end)
    \/ ClearCache

WideSpec == WideInit /\ [][WideNext]_vars

\* A caller that changes, in place, the array the last findPath call
\* returned to it: pop() removes its last point and reverse() reverses it.
\* When that array is a cached entry's path array, the entry's path is
\* what changes; its index map is out of the caller's reach.
Mutations == {"pop", "reverse"}

RECURSIVE reversed(_)
reversed(array) ==
    IF array = << >> THEN << >> ELSE Append(reversed(Tail(array)), Head(array))

mutated(array, how) ==
    IF how = "pop" THEN SubSeq(array, 1, Len(array) - 1) ELSE reversed(array)

MutateResult(how) ==
    /\ last.op = "findPath" /\ last.result.found
    /\ last.result.path # << >>
    /\ last' = [last EXCEPT !.op = "mutate",
                            !.result.path = mutated(last.result.path, how)]
    /\ pathCache' =
          IF last.shared
          THEN [pathCache EXCEPT ![encodeKey(last.start.x, last.start.y) * maxKey
                                       + encodeKey(last.end.x, last.end.y)].path =
                                     mutated(last.result.path, how)]
          ELSE pathCache
    /\ UNCHANGED <<subpathCache, scratch, numCalls, config, pq>>

\* An engine on a uniform grid, queried from the origin by such a caller.
AliasInit ==
    /\ width \in {1, MaxWidth}
    /\ height \in {1, MaxHeight}
    /\ maxKey = width * height
    /\ useDiagonals \in BOOLEAN
    /\ neighborDirections = directionsFor(useDiagonals)
    /\ stepCostKind = "uniform"
    /\ pathCache = EmptyMap
    /\ subpathCache = EmptyMap
    /\ openList = << >>
    /\ openSet = {}
    /\ closedSet = {}
    /\ nodeMap = EmptyMap
    /\ nodePool = << >>
    /\ nodePoolIndex = 0
    /\ pathArray = << >>
    /\ last = NoCall
    /\ numCalls = 0
    /\ compareKind = "ascending"
    /\ NewQueue

AliasNext ==
    \/ \E end \in Cells(width, height) : FindPath(Origin, end)
    \/ \E how \in Mutations : MutateResult(how)

AliasSpec == AliasInit /\ [][AliasNext]_vars

\* findPath taken one iteration of its while loop at a time.  While a call
\* is in flight (last.op = "searching") the scratch variables hold the
\* search's structures and last holds what the call has on its stack: its
\* arguments, the nodes it was given beyond the retained pool, and what it
\* has done so far.
missesCaches(eng, start, end) ==
    /\ isValidPoint(start) /\ isValidPoint(end)
    /\ encodeKey(start.x, start.y) * maxKey + encodeKey(end.x, end.y)
          \notin DOMAIN eng.pathCache
    /\ (encodeKey(start.x, start.y) \in DOMAIN eng.subpathCache
          => subpathHit(eng.pathCache, eng.subpathCache[encodeKey(start.x, start.y)],
                        1, encodeKey(end.x, end.y)) = Null)

InFlight ==
    [openList |-> openList, openSet |-> openSet, closedSet |-> closedSet,
     nodeMap |-> nodeMap, nodePool |-> nodePool, overflow |-> last.overflow,
     nodePoolIndex |-> nodePoolIndex, calls |-> last.calls, status |-> last.status,
     endNode |-> last.endNode, probes |-> last.trace.probes,
     reopened |-> last.trace.reopened, requeued |-> last.trace.requeued,
     popped |-> last.trace.popped]

SetInFlight(s, start, end) ==
    /\ SetEngine(withScratch(Engine, s))
    /\ last' = [op |-> "searching", start |-> start, end |-> end,
                result |-> NullResult, calls |-> s.calls, served |-> "search",
                shared |-> FALSE, trace |-> searchTrace(s),
                overflow |-> s.overflow, status |-> s.status, endNode |-> s.endNode]

\* Lines 136-164 when they answer the call.
AnswerFindPath(start, end) ==
    /\ last.op # "searching"
    /\ ~missesCaches(Engine, start, end)
    /\ FindPath(start, end)

\* Lines 136-182 when the call goes on to the search.
BeginSearch(start, end) ==
    /\ last.op # "searching"
    /\ numCalls < MaxCalls
    /\ missesCaches(Engine, start, end)
    /\ SetInFlight(searchInit(Engine, start, end), start, end)
    /\ numCalls' = numCalls + 1
    /\ UNCHANGED <<config, pq>>

\* The loop test at line 184 and, unless the open list is empty, one
\* iteration of the loop body; the call returns from inside the iteration
\* that dequeues the end node (lines 189-217) and after the test that
\* finds the open list empty (lines 278-280).
SearchIteration ==
    /\ last.op = "searching"
    /\ \E s \in {searchStep(InFlight, last.end)} :
          IF s.status = "running"
          THEN SetInFlight(s, last.start, last.end)
          ELSE \E r \in {searchAnswer(Engine, s, encodeKey(last.start.x, last.start.y),
                                      encodeKey(last.start.x, last.start.y) * maxKey
                                          + encodeKey(last.end.x, last.end.y))} :
                  /\ SetEngine(r.eng)
                  /\ last' = [op |-> "findPath", start |-> last.start, end |-> last.end,
                              result |-> r.result, calls |-> r.calls,
                              served |-> r.served, shared |-> r.shared,
                              trace |-> r.trace]
    /\ UNCHANGED <<numCalls, config, pq>>

LoopInit ==
    /\ width \in {1, MaxWidth}
    /\ height \in {1, MaxHeight}
    /\ maxKey = width * height
    /\ useDiagonals \in BOOLEAN
    /\ neighborDirections = directionsFor(useDiagonals)
    /\ stepCostKind \in NumberKinds
    /\ pathCache = EmptyMap
    /\ subpathCache = EmptyMap
    /\ openList = << >>
    /\ openSet = {}
    /\ closedSet = {}
    /\ nodeMap = EmptyMap
    /\ nodePool = << >>
    /\ nodePoolIndex = 0
    /\ pathArray = << >>
    /\ last = NoCall
    /\ numCalls = 0
    /\ compareKind = "ascending"
    /\ NewQueue

LoopNext ==
    \/ \E end \in Cells(width, height) : AnswerFindPath(Origin, end)
    \/ \E end \in Cells(width, height) : BeginSearch(Origin, end)
    \/ SearchIteration

\* A call that has started runs on: the caller's thread executes the loop.
\* This is weak fairness of SearchIteration, WF_vars(SearchIteration), with
\* ENABLED <<SearchIteration>>_vars written as the state predicate it
\* equals, last.op = "searching": an iteration always changes last.
LoopFairness ==
    []<>(last.op # "searching") \/ []<><<SearchIteration>>_vars

LoopSpec == LoopInit /\ [][LoopNext]_vars /\ LoopFairness

\* A findPath call whose step-cost callback calls findPath on the same
\* instance.  plan says which of the outer call's getStepCost invocations
\* makes the inner call (at, counted from 1) and with which arguments; the
\* callback then returns the step cost as usual.  The inner call runs to
\* its end inside line 246, on the fields of the one instance; the outer
\* call goes on with its locals (currentNode, currentX, currentY, the copy
\* of the neighbors array, the neighbor node it fetched at lines 237-241)
\* and with the fields as the inner call left them.  The working state of
\* the outer call carries the caches and pathArray along, and in nested
\* what the inner call did.
NoNested == [served |-> "none", result |-> NullResult, closedSet |-> {}, nodes |-> 0]

engineOf(s) ==
    [pathCache |-> s.pathCache, subpathCache |-> s.subpathCache,
     openList |-> s.openList, openSet |-> s.openSet, closedSet |-> s.closedSet,
     nodeMap |-> s.nodeMap, nodePool |-> s.nodePool, nodePoolIndex |-> s.nodePoolIndex,
     pathArray |-> s.pathArray]

\* nestedCall on scratch structures of its own, as if the inner call were
\* made on a second instance that shares the caches: C35 fails.
nestedCallIsolated(s, plan) ==
    LET r == findPath(engineOf(s), plan.start, plan.end)
    IN  [s EXCEPT !.pathCache = r.eng.pathCache,
                  !.subpathCache = r.eng.subpathCache,
                  !.nested = [served |-> r.served, result |-> r.result,
                              closedSet |-> IF r.served = "search"
                                            THEN r.eng.closedSet ELSE {},
                              nodes |-> IF r.served = "search"
                                        THEN r.eng.nodePoolIndex ELSE 0]]

\* The inner findPath call, made from inside getStepCost (line 246).
nestedCall(s, plan) ==
    LET r == findPath(engineOf(s), plan.start, plan.end)
    IN  [s EXCEPT !.pathCache = r.eng.pathCache,
                  !.subpathCache = r.eng.subpathCache,
                  !.openList = r.eng.openList,
                  !.openSet = r.eng.openSet,
                  !.closedSet = r.eng.closedSet,
                  !.nodeMap = r.eng.nodeMap,
                  !.nodePool = r.eng.nodePool,
                  !.nodePoolIndex = r.eng.nodePoolIndex,
                  !.pathArray = r.eng.pathArray,
                  !.nested = [served |-> r.served, result |-> r.result,
                              closedSet |-> IF r.served = "search"
                                            THEN r.eng.closedSet ELSE {},
                              nodes |-> IF r.served = "search"
                                        THEN r.eng.nodePoolIndex ELSE 0]]

\* Lines 247-271 with the outer call's locals: the node references
\* currentId and neighborId and the coordinates currentPos were taken
\* before the callback ran.
relaxHeld(s, currentId, currentPos, neighborId, neighborPos, baseStepCost, endX, endY) ==
    IF baseStepCost = Infinity THEN s
    ELSE
      LET neighborKey == encodeKey(neighborPos.x, neighborPos.y)
          dx == neighborPos.x - currentPos.x
          dy == neighborPos.y - currentPos.y
          isDiagonal == (dx = 1 \/ dx = 0 - 1) /\ (dy = 1 \/ dy = 0 - 1)
          moveCost == baseStepCost * (IF isDiagonal THEN DIAGONAL_COST ELSE Unit)
          tentativeG == NodeOf(s, currentId).g + moveCost
          inOpenList == neighborKey \in s.openSet
      IN  IF inOpenList /\ tentativeG >= NodeOf(s, neighborId).g
          THEN s
          ELSE improve(s, currentId, neighborId, neighborKey, tentativeG,
                       heuristic(neighborPos.x, neighborPos.y, endX, endY), inOpenList)

\* Line 246 with the re-entering callback.
callStepCostHeld(s, currentId, currentPos, neighborId, neighborPos, endX, endY, plan) ==
    LET counted == [s EXCEPT !.calls = s.calls + 1,
                             !.probes = s.probes \cup {<<currentPos, neighborPos>>}]
    IN  relaxHeld(IF counted.calls = plan.at THEN nestedCall(counted, plan) ELSE counted,
                  currentId, currentPos, neighborId, neighborPos,
                  getStepCost(currentPos, neighborPos), endX, endY)

heldNode(s, currentId, currentPos, neighborPos, endX, endY, plan) ==
    callStepCostHeld(s, currentId, currentPos,
                     s.nodeMap[encodeKey(neighborPos.x, neighborPos.y)],
                     neighborPos, endX, endY, plan)

visitNeighborHeld(s, currentId, currentPos, neighborPos, endX, endY, plan) ==
    IF encodeKey(neighborPos.x, neighborPos.y) \in s.closedSet THEN s
    ELSE heldNode(ensureNode(s, neighborPos.x, neighborPos.y),
                  currentId, currentPos, neighborPos, endX, endY, plan)

RECURSIVE expandNeighborsHeld(_, _, _, _, _, _, _, _)
expandNeighborsHeld(s, currentId, currentPos, neighbors, i, endX, endY, plan) ==
    IF i > Len(neighbors) THEN s
    ELSE expandNeighborsHeld(
             visitNeighborHeld(s, currentId, currentPos, neighbors[i], endX, endY, plan),
             currentId, currentPos, neighbors, i + 1, endX, endY, plan)

processNodeHeld(s, dq, end, plan) ==
    LET currentNode == NodeOf(s, dq.item)
        currentKey == getKey(currentNode)
    IN  IF currentKey = encodeKey(end.x, end.y)
        THEN [s EXCEPT !.openList = dq.items, !.openSet = s.openSet \ {currentKey},
                       !.status = "found", !.endNode = dq.item,
                       !.popped = Append(s.popped, poppedEntry(s, dq.item))]
        ELSE expandNeighborsHeld([s EXCEPT !.openList = dq.items,
                                           !.openSet = s.openSet \ {currentKey},
                                           !.closedSet = s.closedSet \cup {currentKey},
                                           !.popped = Append(s.popped,
                                                             poppedEntry(s, dq.item))],
                                 dq.item, Point(currentNode.x, currentNode.y),
                                 getNeighbors(currentNode), 1, end.x, end.y, plan)

RECURSIVE searchLoopHeld(_, _, _)
searchLoopHeld(s, end, plan) ==
    IF s.status # "running" THEN s
    ELSE IF isEmpty(s.openList)
         THEN [s EXCEPT !.status = "exhausted"]
         ELSE searchLoopHeld(processNodeHeld(s, dequeue(s.openList), end, plan), end, plan)

\* Whether the loop of reconstructPath (lines 330-333) runs on for more
\* than fuel nodes from the node id: with more than there are nodes, the
\* parent links lead round in a circle and the loop never ends.
RECURSIVE runsOn(_, _, _)
runsOn(s, id, fuel) ==
    IF id = Null THEN FALSE
    ELSE IF fuel = 0 THEN TRUE
         ELSE runsOn(s, NodeOf(s, id).parent, fuel - 1)

heldAnswer(s, startKey, cacheKey) ==
    IF s.status = "found"
    THEN IF runsOn(s, s.endNode, s.nodePoolIndex + Len(s.nodePool))
         THEN [eng |-> engineOf(s), result |-> NullResult, calls |-> s.calls,
               served |-> "diverges", shared |-> FALSE]
         ELSE storePath(intoPathArray(engineOf(s), reconstructPath(s, s.endNode)),
                        reconstructPath(s, s.endNode), startKey, cacheKey, s.calls)
    ELSE storeNull(engineOf(s), cacheKey, s.calls)

\* The outer call, for arguments that miss both caches.
reenteredFindPath(eng, start, end, plan) ==
    LET s == searchLoopHeld(
                 searchInit(eng, start, end)
                     @@ [pathCache |-> eng.pathCache, subpathCache |-> eng.subpathCache,
                         pathArray |-> eng.pathArray, nested |-> NoNested],
                 end, plan)
    IN  heldAnswer(s, encodeKey(start.x, start.y),
                   encodeKey(start.x, start.y) * maxKey + encodeKey(end.x, end.y))
            @@ [trace |-> searchTrace(s), nested |-> s.nested]

\* The plans of the callers: the inner call is made by one of the first
\* invocations, from the origin or the far corner, for a pair other than
\* the outer call's.
Plans(start, end) ==
    {plan \in [at : 1..MaxCalls, start : {Origin, FarCorner}, end : Cells(width, height)] :
        <<plan.start, plan.end>> # <<start, end>>}

ReenteredFindPath(start, end, plan) ==
    /\ numCalls < MaxCalls
    /\ last.op # "reentered"
    /\ missesCaches(Engine, start, end)
    /\ \E r \in {reenteredFindPath(Engine, start, end, plan)} :
           /\ SetEngine(r.eng)
           /\ last' = [op |-> "reentered", start |-> start, end |-> end,
                       result |-> r.result, calls |-> r.calls, served |-> r.served,
                       shared |-> r.shared, trace |-> r.trace, nested |-> r.nested,
                       plan |-> plan]
    /\ numCalls' = numCalls + 1
    /\ UNCHANGED <<config, pq>>

\* The callers make a plain call first, or none, and what the instance
\* does after a re-entered call is left open: the calls stop there.
PlainFindPath(start, end) ==
    /\ numCalls = 0
    /\ FindPath(start, end)

ReentrantInit ==
    /\ width \in {1, MaxWidth}
    /\ height \in {1, MaxHeight}
    /\ maxKey = width * height
    /\ useDiagonals \in BOOLEAN
    /\ neighborDirections = directionsFor(useDiagonals)
    /\ stepCostKind = "uniform"
    /\ pathCache = EmptyMap
    /\ subpathCache = EmptyMap
    /\ openList = << >>
    /\ openSet = {}
    /\ closedSet = {}
    /\ nodeMap = EmptyMap
    /\ nodePool = << >>
    /\ nodePoolIndex = 0
    /\ pathArray = << >>
    /\ last = NoCall
    /\ numCalls = 0
    /\ compareKind = "ascending"
    /\ NewQueue

ReentrantNext ==
    \/ \E end \in Cells(width, height) : PlainFindPath(Origin, end)
    \/ \E end \in Cells(width, height) :
          \E plan \in Plans(Origin, end) : ReenteredFindPath(Origin, end, plan)

ReentrantSpec == ReentrantInit /\ [][ReentrantNext]_vars

\* The engine on a grid of two rows that has two cells more than the pool
\* retains nodes, with the step costs of "wall": the cell (0, 1) cannot be
\* entered, so a search for it visits every other cell and acquires
\* PoolCap + 2 nodes.  findPath is taken one iteration at a time, and
\* clearCache is called between calls.
PoolWidth == PoolCap \div 2 + 1

PoolInit ==
    /\ width = PoolWidth
    /\ height = 2
    /\ maxKey = width * height
    /\ useDiagonals = FALSE
    /\ neighborDirections = directionsFor(useDiagonals)
    /\ stepCostKind = "wall"
    /\ pathCache = EmptyMap
    /\ subpathCache = EmptyMap
    /\ openList = << >>
    /\ openSet = {}
    /\ closedSet = {}
    /\ nodeMap = EmptyMap
    /\ nodePool = << >>
    /\ nodePoolIndex = 0
    /\ pathArray = << >>
    /\ last = NoCall
    /\ numCalls = 0
    /\ compareKind = "ascending"
    /\ NewQueue

PoolQueries ==
    {<<Origin, Point(2, 0)>>, <<Origin, Point(0, 1)>>, <<FarCorner, Point(0, 1)>>}

ClearCacheBetweenCalls ==
    /\ last.op # "searching"
    /\ ClearCache

PoolNext ==
    \/ \E q \in PoolQueries : AnswerFindPath(q[1], q[2])
    \/ \E q \in PoolQueries : BeginSearch(q[1], q[2])
    \/ SearchIteration
    \/ ClearCacheBetweenCalls

PoolSpec == PoolInit /\ [][PoolNext]_vars

\* The engine of the "Basic Pathfinding" tests: a fresh TestWidth by
\* TestHeight grid with uniform step cost 1, queried once from the origin.
TestInit ==
    /\ width = TestWidth
    /\ height = TestHeight
    /\ maxKey = width * height
    /\ useDiagonals \in BOOLEAN
    /\ neighborDirections = directionsFor(useDiagonals)
    /\ stepCostKind = "uniform"
    /\ pathCache = EmptyMap
    /\ subpathCache = EmptyMap
    /\ openList = << >>
    /\ openSet = {}
    /\ closedSet = {}
    /\ nodeMap = EmptyMap
    /\ nodePool = << >>
    /\ nodePoolIndex = 0
    /\ pathArray = << >>
    /\ last = NoCall
    /\ numCalls = 0
    /\ compareKind = "ascending"
    /\ NewQueue

FirstFindPath(start, end) ==
    /\ numCalls = 0
    /\ \E r \in {findPath(Engine, start, end)} :
           /\ SetEngine(r.eng)
           /\ last' = [op |-> "findPath", start |-> start, end |-> end,
                       result |-> r.result, calls |-> r.calls, served |-> r.served,
                       shared |-> r.shared,
                       trace |-> IF r.served = "search" THEN r.trace ELSE NoTrace]
    /\ numCalls' = numCalls + 1
    /\ UNCHANGED <<config, pq>>

\* With diagonals the queries run along the top row, the first column or
\* the main diagonal, as the tests' do: for other cells the order in which
\* the code takes candidates of equal f rests on the floating-point
\* rounding of sums of 1 and DIAGONAL_COST, which integers do not have.
TestEnds ==
    {end \in Cells(width, height) :
        ~useDiagonals \/ end.x = 0 \/ end.y = 0 \/ end.x = end.y}

TestNext == \E end \in TestEnds : FirstFindPath(Origin, end)

TestSpec == TestInit /\ [][TestNext]_vars

\* A PriorityQueue of numbered items used on its own.  enqueued holds the
\* priority of every item enqueued so far (item i is the i-th enqueued),
\* dequeued what each dequeue returned, stale the items a clear discarded,
\* and pqLast the last operation, what it returned and the queue's length
\* before it.
Priorities == 0..MaxPriority

OpsDone == Len(enqueued) + Len(dequeued) + clears

ItemsIn(items) == {items[i].item : i \in 1..Len(items)}

QueueInit ==
    /\ width = 1
    /\ height = 1
    /\ maxKey = 1
    /\ useDiagonals = TRUE
    /\ neighborDirections = directionsFor(useDiagonals)
    /\ stepCostKind = "uniform"
    /\ pathCache = EmptyMap
    /\ subpathCache = EmptyMap
    /\ openList = << >>
    /\ openSet = {}
    /\ closedSet = {}
    /\ nodeMap = EmptyMap
    /\ nodePool = << >>
    /\ nodePoolIndex = 0
    /\ pathArray = << >>
    /\ last = NoCall
    /\ numCalls = 0
    /\ compareKind \in CompareKinds
    /\ NewQueue

Enqueue(priority) ==
    /\ OpsDone < MaxOps
    /\ queue' = enqueue(queue, Len(enqueued) + 1, priority)
    /\ enqueued' = Append(enqueued, priority)
    /\ pqLast' = [op |-> "enqueue", out |-> Undefined, before |-> Len(queue)]
    /\ UNCHANGED <<dequeued, stale, clears>>
    /\ UNCHANGED <<config, caches, scratch, last, numCalls, compareKind>>

Dequeue ==
    /\ OpsDone < MaxOps
    /\ \E r \in {dequeue(queue)} :
           /\ queue' = r.items
           /\ dequeued' = Append(dequeued, r.item)
           /\ pqLast' = [op |-> "dequeue", out |-> r.item, before |-> Len(queue)]
    /\ UNCHANGED <<enqueued, stale, clears>>
    /\ UNCHANGED <<config, caches, scratch, last, numCalls, compareKind>>

Clear ==
    /\ OpsDone < MaxOps
    /\ queue' = clear(queue)
    /\ stale' = stale \cup ItemsIn(queue)
    /\ clears' = clears + 1
    /\ pqLast' = [op |-> "clear", out |-> Undefined, before |-> Len(queue)]
    /\ UNCHANGED <<enqueued, dequeued>>
    /\ UNCHANGED <<config, caches, scratch, last, numCalls, compareKind>>

QueueNext ==
    \/ \E priority \in Priorities : Enqueue(priority)
    \/ Dequeue
    \/ Clear

QueueSpec == QueueInit /\ [][QueueNext]_vars

\* ============================================================ properties
\* Reference notions the claims are stated with, defined from the grid and
\* the step-cost function alone.
Grid == Cells(width, height)

InGrid(p) == p \in Grid

DirectionSet == {neighborDirections[i] : i \in DOMAIN neighborDirections}

Adjacent(p, q) ==
    /\ p.x - q.x \in {0 - 1, 0, 1}
    /\ p.y - q.y \in {0 - 1, 0, 1}
    /\ p # q

\* A move the engine's configuration admits: inside the grid, along one of
\* the configured directions, with a finite step cost.
Feasible(p, q) ==
    /\ InGrid(p) /\ InGrid(q)
    /\ <<q.x - p.x, q.y - p.y>> \in DirectionSet
    /\ getStepCost(p, q) # Infinity

MoveCostOf(p, q) ==
    getStepCost(p, q) * (IF p.x # q.x /\ p.y # q.y THEN DIAGONAL_COST ELSE Unit)

RECURSIVE PathCost(_)
PathCost(path) ==
    IF Len(path) < 2 THEN 0
    ELSE MoveCostOf(path[1], path[2]) + PathCost(Tail(path))

SetMin(S) == CHOOSE m \in S : \A n \in S : m <= n

\* Least costs from start by Bellman-Ford relaxation; a cell without a
\* route has the value Null.
RelaxCell(d, c) ==
    LET via == {d[p] + MoveCostOf(p, c) : p \in {q \in Grid : d[q] # Null /\ Feasible(q, c)}}
        all == via \cup (IF d[c] # Null THEN {d[c]} ELSE {})
    IN  IF all = {} THEN Null ELSE SetMin(all)

RECURSIVE RelaxCells(_, _, _)
RelaxCells(d, todo, acc) ==
    IF todo = {} THEN acc
    ELSE LET c == CHOOSE p \in todo : TRUE
         IN  RelaxCells(d, todo \ {c}, (c :> RelaxCell(d, c)) @@ acc)

RelaxAll(d) == RelaxCells(d, Grid, << >>)

RECURSIVE RelaxTimes(_, _)
RelaxTimes(d, n) == IF n = 0 THEN d ELSE RelaxTimes(RelaxAll(d), n - 1)

RECURSIVE StartCosts(_, _, _)
StartCosts(start, todo, acc) ==
    IF todo = {} THEN acc
    ELSE LET c == CHOOSE p \in todo : TRUE
         IN  StartCosts(start, todo \ {c}, (c :> (IF c = start THEN 0 ELSE Null)) @@ acc)

LeastCost(start, end) ==
    RelaxTimes(StartCosts(start, Grid, << >>), Cardinality(Grid))[end]

\* The cells some sequence of feasible moves reaches from the cells of S.
RECURSIVE ReachedFrom(_)
ReachedFrom(S) ==
    LET T == S \cup {q \in Grid : \E p \in S : Feasible(p, q)}
    IN  IF T = S THEN S ELSE ReachedFrom(T)

Reachable(start, end) == end \in ReachedFrom({start})

LastFound == last.op = "findPath" /\ last.result.found

LastValid == InGrid(last.start) /\ InGrid(last.end)

\* C1: whenever findPath returns a path (step costs finite >= 1 or
\* impassable, unchanged since construction), the path's total cost is the
\* least cost of any feasible path from start to end.
C1_OptimalCost ==
    LastFound => PathCost(last.result.path) = LeastCost(last.start, last.end)

\* A state the C1 statement is about: a search returned a path of at least
\* three cells over a step-cost function with unequal finite costs.
C1_Witness ==
    /\ LastFound /\ last.served = "search"
    /\ stepCostKind = "road"
    /\ Len(last.result.path) >= 3

\* C2: every path findPath returns, from a search, an exact-cache hit or a
\* subpath hit, is non-empty, starts at start, ends at end, and each two
\* consecutive points differ by at most 1 in x and in y and are distinct.
WellFormedPath(path, start, end) ==
    /\ Len(path) >= 1
    /\ path[1] = start
    /\ path[Len(path)] = end
    /\ \A i \in 1..(Len(path) - 1) : Adjacent(path[i], path[i + 1])

C2_PathShape ==
    LastFound => WellFormedPath(last.result.path, last.start, last.end)

C2_Witness ==
    /\ LastFound /\ last.served = "subpath"
    /\ Len(last.result.path) >= 2

\* The call that follows the last one, with the arguments start and end.
Following(start, end) == findPath(Engine, start, end)

PointsOf(path) == {path[i] : i \in 1..Len(path)}

IndexIn(path, p) == CHOOSE i \in 1..Len(path) : path[i] = p

PrefixTo(path, p) == SubSeq(path, 1, IndexIn(path, p))

CacheKeyOf(start, end) ==
    (start.y * width + start.x) * (width * height) + (end.y * width + end.x)

\* The cached paths starting at start that contain the point p.
CachedThrough(start, p) ==
    {k \in {CacheKeyOf(start, e) : e \in Grid} \cap DOMAIN pathCache :
        ~pathCache[k].isNull /\ p \in PointsOf(pathCache[k].path)}

\* C3 as stated: if findPath(A, C) returns P and B is a point of P, a
\* following findPath(A, B) returns the prefix of P that ends at B, whatever
\* was cached earlier.
C3_SubpathLawAlways ==
    LastFound =>
        \A b \in PointsOf(last.result.path) :
            Following(last.start, b).result
                = [found |-> TRUE, path |-> PrefixTo(last.result.path, b)]

\* C3 amended: the same, provided the exact cache holds no entry for (A, B)
\* unless B is C, and exactly one cached path starting at A contains B.
C3_SubpathLaw ==
    LastFound =>
        \A b \in PointsOf(last.result.path) :
            (/\ (b # last.end => CacheKeyOf(last.start, b) \notin DOMAIN pathCache)
             /\ Cardinality(CachedThrough(last.start, b)) = 1)
            => Following(last.start, b).result
                  = [found |-> TRUE, path |-> PrefixTo(last.result.path, b)]

C3_Witness ==
    /\ LastFound /\ last.served = "search"
    /\ \E b \in PointsOf(last.result.path) :
          /\ b # last.start /\ b # last.end
          /\ CacheKeyOf(last.start, b) \notin DOMAIN pathCache
          /\ Cardinality(CachedThrough(last.start, b)) = 1
          /\ Following(last.start, b).served = "subpath"

\* C4: calling findPath(s, e) twice in succession returns equal results, and
\* the second call does not invoke the step-cost function.
C4_Idempotent ==
    last.op = "findPath" =>
        LET again == Following(last.start, last.end)
        IN  again.result = last.result /\ again.calls = 0

C4_Witness ==
    /\ last.op = "findPath" /\ last.served = "search" /\ last.calls > 0
    /\ numCalls = 2

\* C5: for in-bounds start and end, findPath returns not-found exactly when
\* no sequence of feasible moves leads from start to end.
C5_NotFoundIffUnreachable ==
    (last.op = "findPath" /\ LastValid) =>
        (last.result.found <=> Reachable(last.start, last.end))

\* Not-found after a search that expanded cells beyond the start, on a grid
\* where the start does reach other cells.
C5_Witness ==
    /\ last.op = "findPath" /\ LastValid /\ ~last.result.found
    /\ last.served = "search"
    /\ Cardinality(closedSet) >= 3

\* C6: no returned path takes a step whose cost is positive infinity.
C6_NoImpassableStep ==
    LastFound =>
        \A i \in 1..(Len(last.result.path) - 1) :
            getStepCost(last.result.path[i], last.result.path[i + 1]) # Infinity

\* A path returned around impassable cells: some feasible-looking shorter
\* route is closed by an infinite step cost.
C6_Witness ==
    /\ LastFound /\ stepCostKind = "wall"
    /\ Len(last.result.path) >= 3
    /\ \E p \in Grid, q \in Grid :
          /\ p \in PointsOf(last.result.path)
          /\ <<q.x - p.x, q.y - p.y>> \in DirectionSet
          /\ getStepCost(p, q) = Infinity

\* C7: with start or end outside the grid, findPath returns not-found
\* without invoking the step-cost function and leaves the exact cache, the
\* subpath index, the heap, the open and closed sets, the node map and the
\* pool cursor unchanged.
C7_InvalidPoint ==
    [][(last'.op = "findPath" /\ ~(InGrid(last'.start) /\ InGrid(last'.end)))
         => /\ ~last'.result.found
            /\ last'.calls = 0
            /\ UNCHANGED <<caches, scratch>>]_vars

C7_Witness ==
    /\ last.op = "findPath" /\ ~LastValid
    /\ DOMAIN pathCache # {} /\ openList # << >>

\* C8: findPath(p, p) for an in-bounds p returns the one-point path <<p>>
\* and does not invoke the step-cost function, in every engine state.
C8_StartEqualsEnd ==
    /\ (last.op = "findPath" /\ LastValid /\ last.start = last.end)
          => /\ last.result = [found |-> TRUE, path |-> <<last.start>>]
             /\ last.calls = 0
    /\ \A p \in Grid :
          LET r == Following(p, p)
          IN  r.result = [found |-> TRUE, path |-> <<p>>] /\ r.calls = 0

C8_Witness ==
    /\ last.op = "findPath" /\ LastValid /\ last.start = last.end
    /\ last.served = "subpath"

C8_WitnessUnitGrid ==
    /\ last.op = "findPath" /\ LastValid /\ width = 1 /\ height = 1

\* C9: once a search for an in-bounds pair has exhausted the open set and
\* returned not-found, every later findPath for the pair before the next
\* clearCache returns not-found without invoking the step-cost function.
NullCached(cache, q) ==
    /\ InGrid(q[1]) /\ InGrid(q[2])
    /\ CacheKeyOf(q[1], q[2]) \in DOMAIN cache
    /\ cache[CacheKeyOf(q[1], q[2])].isNull

C9_NegativeCached ==
    [][/\ (last'.op = "findPath" /\ last'.served = "search" /\ ~last'.result.found)
            => NullCached(pathCache', <<last'.start, last'.end>>)
       /\ \A q \in Queries :
            (NullCached(pathCache, q) /\ last'.op = "findPath")
                => /\ NullCached(pathCache', q)
                   /\ (last'.start = q[1] /\ last'.end = q[2])
                         => (~last'.result.found /\ last'.calls = 0)]_vars

C9_Witness ==
    /\ last.op = "findPath" /\ LastValid /\ ~last.result.found
    /\ last.served = "exact"

\* C10 as stated: after any answered query, clearCache() and the same
\* query make strictly more step-cost invocations than the cached call.
Recomputed(start, end) == findPath(clearCache(Engine), start, end)

C10_RecomputeAlways ==
    last.op = "findPath" =>
        Recomputed(last.start, last.end).calls > Following(last.start, last.end).calls

\* C10 amended: so it is for in-bounds start # end; for start = end and for
\* an out-of-bounds point neither call invokes the step-cost function.
C10_Recompute ==
    last.op = "findPath" =>
        LET cached == Following(last.start, last.end)
            fresh == Recomputed(last.start, last.end)
        IN  IF LastValid /\ last.start # last.end
            THEN fresh.calls > cached.calls /\ fresh.served = "search"
            ELSE fresh.calls = 0 /\ cached.calls = 0

C10_Witness ==
    /\ last.op = "findPath" /\ LastValid /\ last.start # last.end
    /\ last.served = "exact"
    /\ Recomputed(last.start, last.end).calls > 0

\* C11: between two clearCache calls a cached answer does not change: an
\* answer findPath has just given is cached, and whatever the caches hold
\* an answer for before a findPath call (an exact entry, or a cached path
\* from the start through the end), or is out of bounds, is answered
\* without a search and with the same result after that call.
HeldInCaches(q) ==
    (InGrid(q[1]) /\ InGrid(q[2])) =>
        \/ CacheKeyOf(q[1], q[2]) \in DOMAIN pathCache
        \/ CachedThrough(q[1], q[2]) # {}

C11_CachedAnswersStable ==
    [][last'.op = "findPath" =>
          /\ LET again == findPath(Engine', last'.start, last'.end)
             IN  again.served # "search" /\ again.result = last'.result
          /\ \A q \in {h \in Queries : HeldInCaches(h)} :
                LET before == Following(q[1], q[2])
                    after == findPath(Engine', q[1], q[2])
                IN  /\ before.served # "search"
                    /\ after.served # "search"
                    /\ after.result = before.result]_vars

\* A second query was searched while the answer of an earlier, different
\* query (a path of several cells) is still served from the caches.
C11_Witness ==
    /\ numCalls = 2 /\ last.op = "findPath" /\ last.served = "search"
    /\ \E q \in Queries :
          /\ <<last.start, last.end>> # q
          /\ Following(q[1], q[2]).served \in {"exact", "subpath"}
          /\ Len(Following(q[1], q[2]).result.path) >= 3
          /\ q[1] = last.start

\* C12: clearCache empties the exact cache and the subpath index and leaves
\* the node pool, its cursor, the other scratch structures and the grid and
\* step-cost configuration as they were.
C12_ClearCacheFrame ==
    [][last'.op = "clearCache" =>
          /\ DOMAIN pathCache' = {}
          /\ DOMAIN subpathCache' = {}
          /\ UNCHANGED <<nodePool, nodePoolIndex>>
          /\ UNCHANGED <<openList, openSet, closedSet, nodeMap>>
          /\ UNCHANGED config]_vars

\* clearCache was called on an engine whose search had filled the pool.
C12_Witness ==
    /\ last.op = "clearCache"
    /\ Len(nodePool) >= 3 /\ nodePoolIndex >= 3
    /\ DOMAIN pathCache = {}

\* C13: getStepCost is only invoked with two points inside the grid, and
\* every node, every entry of the open and closed sets and of the node map,
\* and every entry of the exact cache and the subpath index stands for
\* coordinates inside the grid.
CellKeys == 0..(maxKey - 1)

C13_InsideGridOnly ==
    /\ \A pr \in last.trace.probes : InGrid(pr[1]) /\ InGrid(pr[2])
    /\ \A i \in 1..Len(nodePool) : InGrid(Point(nodePool[i].x, nodePool[i].y))
    /\ openSet \cup closedSet \cup DOMAIN nodeMap \subseteq CellKeys
    /\ \A k \in DOMAIN nodeMap : getKey(nodePool[nodeMap[k] + 1]) = k
    /\ \A k \in DOMAIN pathCache :
          /\ k \in 0..(maxKey * maxKey - 1)
          /\ ~pathCache[k].isNull =>
                /\ PointsOf(pathCache[k].path) \subseteq Grid
                /\ DOMAIN pathCache[k].pointToIndex \subseteq CellKeys
    /\ DOMAIN subpathCache \subseteq CellKeys

\* A search that closed both corners of a grid of several cells, where
\* most directions lead off the grid, and invoked getStepCost.
C13_Witness ==
    /\ last.op = "findPath" /\ last.served = "search"
    /\ width > 1 /\ height > 1
    /\ {encodeKey(Origin.x, Origin.y), encodeKey(FarCorner.x, FarCorner.y)}
          \subseteq closedSet \cup {encodeKey(last.end.x, last.end.y)}
    /\ Cardinality(last.trace.probes) >= 4

\* C14: on an engine constructed with useDiagonals = false every step of a
\* returned path changes exactly one coordinate, by exactly 1; with
\* useDiagonals = true every step is a cardinal or a diagonal move.
StepOf(path, i) == <<path[i + 1].x - path[i].x, path[i + 1].y - path[i].y>>

C14_MovementFlag ==
    LastFound =>
        \A i \in 1..(Len(last.result.path) - 1) :
            IF useDiagonals
            THEN StepOf(last.result.path, i) \in
                    {<<dx, dy>> \in {0 - 1, 0, 1} \X {0 - 1, 0, 1} : <<dx, dy>> # <<0, 0>>}
            ELSE StepOf(last.result.path, i) \in {<<0, 0 - 1>>, <<0, 1>>, <<0 - 1, 0>>, <<1, 0>>}

\* Without diagonals a path was returned between two cells that differ in
\* both coordinates, which a diagonal step would shorten.
C14_Witness ==
    /\ LastFound /\ ~useDiagonals /\ stepCostKind = "uniform"
    /\ last.start.x # last.end.x /\ last.start.y # last.end.y
    /\ Len(last.result.path) >= 4

\* With diagonals a returned path takes a diagonal step.
C14_WitnessDiagonal ==
    /\ LastFound /\ useDiagonals
    /\ \E i \in 1..(Len(last.result.path) - 1) :
          StepOf(last.result.path, i) \in {<<1, 1>>, <<0 - 1, 0 - 1>>, <<1, 0 - 1>>, <<0 - 1, 1>>}

\* C15: on a fresh 10 by 10 engine with uniform step cost 1 and diagonals,
\* findPath((0,0), (5,0)) returns exactly the six points (0,0), (1,0), ...,
\* (5,0): y constantly 0 and x rising by one from 0 to 5.
C15_StraightPath ==
    (/\ last.op = "findPath" /\ useDiagonals /\ stepCostKind = "uniform"
     /\ width = TestWidth /\ height = TestHeight
     /\ last.start = Origin /\ last.end = Point(TestEndX, 0))
        => /\ last.result.found
           /\ last.result.path = [i \in 1..(TestEndX + 1) |-> Point(i - 1, 0)]

C15_Witness ==
    /\ last.op = "findPath" /\ useDiagonals /\ stepCostKind = "uniform"
    /\ width = TestWidth /\ height = TestHeight
    /\ last.start = Origin /\ last.end = Point(TestEndX, 0)
    /\ last.served = "search" /\ last.calls > 0

\* C16: whatever enqueues, dequeues and clears came before, a dequeue on a
\* non-empty queue removes one entry and returns its item, and that entry's
\* priority is minimal under the comparator among the entries the queue
\* held: the smallest number for "ascending", the largest for "descending".
C16_DequeueMinimal ==
    [][(pqLast'.op = "dequeue" /\ ~isEmpty(queue)) =>
          \E i \in 1..Len(queue) :
              /\ queue[i].item = pqLast'.out
              /\ \A j \in 1..Len(queue) :
                    compare(queue[i].priority, queue[j].priority) <= 0
              /\ \A j \in 1..Len(queue) :
                    IF compareKind = "descending"
                    THEN queue[i].priority >= queue[j].priority
                    ELSE queue[i].priority <= queue[j].priority
              /\ ItemsIn(queue') = ItemsIn(queue) \ {queue[i].item}
              /\ Len(queue') = Len(queue) - 1]_vars

\* After a clear, a dequeue from a queue of at least three entries that
\* leaves entries of different priorities behind.
C16_Witness ==
    /\ pqLast.op = "dequeue" /\ pqLast.before >= 3 /\ clears >= 1
    /\ \E i, j \in 1..Len(queue) : queue[i].priority # queue[j].priority

\* The same under the reversed comparator.
C16_WitnessDescending ==
    /\ compareKind = "descending"
    /\ pqLast.op = "dequeue" /\ pqLast.before >= 4
    /\ \E i, j \in 1..Len(queue) : queue[i].priority # queue[j].priority

\* C17: while clear has not been called, the queue holds exactly the
\* enqueued entries no dequeue has returned yet, each once and with its
\* priority; no item is returned twice; a dequeue returns no item only from
\* an empty queue; and isEmpty is true exactly when as many items have
\* been returned as were enqueued.
ReturnedAt == {i \in 1..Len(dequeued) : dequeued[i] # Undefined}

Returned == {dequeued[i] : i \in ReturnedAt}

C17_Conservation ==
    clears = 0 =>
        /\ Cardinality(Returned) = Cardinality(ReturnedAt)
        /\ Returned \subseteq 1..Len(enqueued)
        /\ ItemsIn(queue) = (1..Len(enqueued)) \ Returned
        /\ Len(queue) = Cardinality(ItemsIn(queue))
        /\ \A i \in 1..Len(queue) : queue[i].priority = enqueued[queue[i].item]
        /\ (pqLast.op = "dequeue" /\ pqLast.out = Undefined) => pqLast.before = 0
        /\ isEmpty(queue) <=> (Len(enqueued) = Cardinality(ReturnedAt))

\* Three or more entries, two of them with equal priorities, were enqueued
\* and every one has been returned.
C17_Witness ==
    /\ clears = 0 /\ Len(enqueued) >= 3
    /\ \E i, j \in 1..Len(enqueued) : i # j /\ enqueued[i] = enqueued[j]
    /\ Returned = 1..Len(enqueued)
    /\ isEmpty(queue)

\* C18: dequeue on an empty queue returns undefined and leaves the queue
\* empty, and the queue is usable: enqueue followed by dequeue then returns
\* the enqueued item and leaves the queue empty again.
C18_EmptyDequeue ==
    (pqLast.op = "dequeue" /\ pqLast.before = 0) =>
        /\ pqLast.out = Undefined
        /\ queue = << >>
        /\ \A priority \in Priorities :
              dequeue(enqueue(queue, Len(enqueued) + 1, priority))
                  = [item |-> Len(enqueued) + 1, items |-> << >>]

\* A dequeue on a queue that entries had passed through before it ran empty.
C18_Witness ==
    /\ pqLast.op = "dequeue" /\ pqLast.before = 0
    /\ Len(enqueued) >= 2 /\ Cardinality(Returned) >= 1

\* C19: after clear the queue is empty, whatever it held: isEmpty is true
\* and dequeue returns undefined; and no dequeue ever returns an entry that
\* a clear discarded.
C19_ClearEmpties ==
    /\ pqLast.op = "clear" =>
          /\ isEmpty(queue)
          /\ dequeue(queue) = [item |-> Undefined, items |-> << >>]
    /\ Returned \cap stale = {}
    /\ ItemsIn(queue) \cap stale = {}

\* A clear discarded entries, and a later dequeue returned an entry
\* enqueued after it.
C19_Witness ==
    /\ Cardinality(stale) >= 2
    /\ pqLast.op = "dequeue" /\ pqLast.out \in 1..Len(enqueued)

\* A clear of a queue that was empty already.
C19_WitnessEmpty ==
    /\ pqLast.op = "clear" /\ pqLast.before = 0 /\ Len(enqueued) >= 1

\* C20: each time a search gives a neighbor that is already in the open
\* set a strictly better g, with a new parent, h and f, it enqueues the
\* neighbor again, so that the heap gains an entry with the new f.
C20_Reenqueued ==
    last.op = "findPath" => last.trace.requeued = last.trace.reopened

\* A search gave a better g to a node that was in the open set.
C20_Witness ==
    /\ last.op = "findPath" /\ last.served = "search"
    /\ last.trace.reopened >= 1

\* C21: in a search (every step-cost function of Spec is stable and has
\* finite values >= 1), each node has, at the moment it is dequeued and
\* closed or dequeued as the end node, a g equal to the least cost of any
\* feasible path from the start to its cell.
CellOf(key) == Point(key % width, key \div width)

LeastCosts(start) == RelaxTimes(StartCosts(start, Grid, << >>), Cardinality(Grid))

C21_ClosedFinal ==
    (last.op = "findPath" /\ last.served = "search") =>
        LET least == LeastCosts(last.start)
        IN  \A i \in 1..Len(last.trace.popped) :
                last.trace.popped[i].g = least[CellOf(last.trace.popped[i].key)]

\* A search over unequal finite step costs that closed several cells.
C21_Witness ==
    /\ last.op = "findPath" /\ last.served = "search"
    /\ stepCostKind = "road"
    /\ Len(last.trace.popped) >= 4

\* C22: within one search no cell is dequeued and expanded twice: the
\* dequeued cells are pairwise distinct and none was closed when it was
\* dequeued; the closed cells are the dequeued ones other than the end; a
\* closed cell is neither in the open set nor in the heap; and its node
\* keeps the g and the parent it had when it was closed.
C22_ExpandedOnce ==
    (last.op = "findPath" /\ last.served = "search") =>
        LET pops == last.trace.popped
        IN  /\ \A i, j \in 1..Len(pops) : i # j => pops[i].key # pops[j].key
            /\ \A i \in 1..Len(pops) : ~pops[i].closed
            /\ closedSet = {pops[i].key : i \in 1..Len(pops)}
                              \ (IF last.result.found
                                 THEN {encodeKey(last.end.x, last.end.y)} ELSE {})
            /\ closedSet \cap openSet = {}
            /\ \A i \in 1..Len(openList) :
                  getKey(nodePool[openList[i].item + 1]) \notin closedSet
            /\ \A i \in 1..Len(pops) :
                  pops[i].key \in closedSet =>
                      /\ nodePool[nodeMap[pops[i].key] + 1].g = pops[i].g
                      /\ nodePool[nodeMap[pops[i].key] + 1].parent = pops[i].parent

\* A search that closed several cells and, reaching an open cell by a
\* cheaper route, updated its node.
C22_Witness ==
    /\ last.op = "findPath" /\ last.served = "search"
    /\ Cardinality(closedSet) >= 3
    /\ last.trace.reopened >= 1

\* C23: whatever admitted step-cost function the engine has, with and
\* without diagonals, the heuristic of a cell is at most the least cost of
\* a feasible path from the cell to the end.
C23_Admissible ==
    \A p \in Grid :
        LET least == LeastCosts(p)
        IN  \A e \in Grid :
                least[e] # Null => heuristic(p.x, p.y, e.x, e.y) <= least[e]

\* A search over steps of cost 0 gave a node a positive heuristic.
C23_Witness ==
    /\ last.op = "findPath" /\ last.served = "search" /\ last.result.found
    /\ stepCostKind = "free"
    /\ \E k \in DOMAIN nodeMap : nodePool[nodeMap[k] + 1].h > 0

\* The members of the subpath index for startKey, in insertion order.
StartPaths(index, startKey) ==
    IF startKey \in DOMAIN index THEN index[startKey] ELSE << >>

\* C24 as stated: after every findPath that ran the search, found or not,
\* the exact cache holds an entry for the pair and the subpath index holds
\* that entry under the start's key.
C24_PopulatesBoth ==
    (last.op = "findPath" /\ last.served = "search") =>
        /\ CacheKeyOf(last.start, last.end) \in DOMAIN pathCache
        /\ \E i \in 1..Len(StartPaths(subpathCache, encodeKey(last.start.x, last.start.y))) :
              subpathCache[encodeKey(last.start.x, last.start.y)][i]
                  = CacheKeyOf(last.start, last.end)

\* C24 amended: a findPath that runs the search adds an exact-cache entry
\* for the pair, which was not there; when it returns a path the entry holds
\* that path and is appended to the subpath index under the start's key;
\* when it returns not-found the entry is the no-path marker and the
\* subpath index is left as it was.
C24_SearchPopulates ==
    [][(last'.op = "findPath" /\ last'.served = "search") =>
          LET startKey == encodeKey(last'.start.x, last'.start.y)
              cacheKey == CacheKeyOf(last'.start, last'.end)
          IN  /\ cacheKey \notin DOMAIN pathCache
              /\ DOMAIN pathCache' = DOMAIN pathCache \cup {cacheKey}
              /\ IF last'.result.found
                 THEN /\ ~pathCache'[cacheKey].isNull
                      /\ pathCache'[cacheKey].path = last'.result.path
                      /\ DOMAIN subpathCache' = DOMAIN subpathCache \cup {startKey}
                      /\ subpathCache'[startKey]
                            = Append(StartPaths(subpathCache, startKey), cacheKey)
                      /\ \A k \in DOMAIN subpathCache \ {startKey} :
                            subpathCache'[k] = subpathCache[k]
                 ELSE /\ pathCache'[cacheKey].isNull
                      /\ subpathCache' = subpathCache]_vars

\* A search returned not-found for a start that has a cached path in the
\* subpath index.
C24_Witness ==
    /\ last.op = "findPath" /\ last.served = "search" /\ ~last.result.found
    /\ last.calls > 0
    /\ encodeKey(last.start.x, last.start.y) \in DOMAIN subpathCache

\* The value findPath returns for the exact-cache entry cached.
AnswerOf(cached) ==
    IF cached.isNull THEN NullResult ELSE [found |-> TRUE, path |-> cached.path]

\* C25: a findPath call with in-bounds points is answered from the exact
\* cache, with the entry's path or not-found, whenever the pair has an exact
\* entry, also when some cached path from the start contains the end; from
\* the subpath index only when the pair has no exact entry and some cached
\* path from the start contains the end; and by the search only when
\* neither is so.
C25_LookupOrder ==
    [][(last'.op = "findPath" /\ InGrid(last'.start) /\ InGrid(last'.end)) =>
          /\ IF CacheKeyOf(last'.start, last'.end) \in DOMAIN pathCache
             THEN /\ last'.served = "exact"
                  /\ last'.result = AnswerOf(pathCache[CacheKeyOf(last'.start, last'.end)])
             ELSE IF CachedThrough(last'.start, last'.end) # {}
                  THEN last'.served = "subpath"
                  ELSE last'.served = "search"
          /\ \A q \in {h \in Queries : InGrid(h[1]) /\ InGrid(h[2])} :
                CacheKeyOf(q[1], q[2]) \in DOMAIN pathCache' =>
                    LET next == findPath(Engine', q[1], q[2])
                    IN  /\ next.served = "exact"
                        /\ next.result = AnswerOf(pathCache'[CacheKeyOf(q[1], q[2])])]_vars

\* The pair of the first call has an exact entry, and the path the second
\* call cached from the same start reaches the first call's end by another
\* route; the exact entry answers.
C25_Witness ==
    /\ numCalls = 2 /\ LastFound /\ last.served = "search"
    /\ \E e \in PointsOf(last.result.path) \ {last.end} :
          /\ CacheKeyOf(last.start, e) \in DOMAIN pathCache
          /\ ~pathCache[CacheKeyOf(last.start, e)].isNull
          /\ pathCache[CacheKeyOf(last.start, e)].path # PrefixTo(last.result.path, e)
          /\ Following(last.start, e).served = "exact"

\* C26: when a search caches a path P from start, then for every point e
\* of P without an exact entry for (start, e): if no cached path from start
\* contained e before, findPath(start, e) is now answered with P's prefix;
\* if one did, findPath(start, e) is answered as it was before P was
\* cached.  So among several cached paths through e the one cached first
\* since the last clearCache gives the answer.
C26_EarliestWins ==
    [][(last'.op = "findPath" /\ last'.served = "search" /\ last'.result.found) =>
          \A e \in PointsOf(last'.result.path) :
              CacheKeyOf(last'.start, e) \notin DOMAIN pathCache' =>
                  LET after == findPath(Engine', last'.start, e)
                  IN  /\ after.served = "subpath"
                      /\ IF CachedThrough(last'.start, e) = {}
                         THEN after.result.path = PrefixTo(last'.result.path, e)
                         ELSE LET before == Following(last'.start, e)
                              IN  /\ before.served = "subpath"
                                  /\ after.result = before.result]_vars

\* Two cached paths from the same start reach a cell e by different
\* routes, the pair (start, e) has no exact entry, and the answer is not
\* the prefix of the path cached last.
C26_Witness ==
    /\ numCalls = 2 /\ LastFound /\ last.served = "search"
    /\ \E e \in PointsOf(last.result.path) :
          /\ CacheKeyOf(last.start, e) \notin DOMAIN pathCache
          /\ Cardinality(CachedThrough(last.start, e)) = 2
          /\ Following(last.start, e).served = "subpath"
          /\ Following(last.start, e).result.path # PrefixTo(last.result.path, e)

\* C27: a findPath call answered by a subpath hit adds no exact-cache entry
\* for its pair, leaves the exact cache and the subpath index as they were,
\* does not invoke getStepCost, and does not touch the heap, the open and
\* closed sets, the node map, the pool or its cursor.
C27_SubpathFrame ==
    [][last'.served = "subpath" =>
          /\ CacheKeyOf(last'.start, last'.end) \notin DOMAIN pathCache'
          /\ UNCHANGED caches
          /\ last'.calls = 0
          /\ UNCHANGED scratch
          /\ UNCHANGED config]_vars

\* A subpath hit for a proper prefix on an engine whose last search left
\* entries in the heap and cells in the closed set.
C27_Witness ==
    /\ last.op = "findPath" /\ last.served = "subpath"
    /\ Len(last.result.path) >= 2
    /\ openList # << >> /\ closedSet # {} /\ nodePoolIndex >= 3

\* C28: in every reachable state, each exact-cache entry that is a path,
\* stored under the key of (s, e), is a path from s to e and a member of
\* the subpath index set of s; each member of the subpath index set of a
\* key is such an entry and begins at the cell of that key, and is a member
\* once; and the index map of a cached path sends the key of its i-th point
\* to i (counted from 0) and has as many entries as the path has points.
C28_CacheConsistent ==
    /\ \A k \in DOMAIN pathCache :
          ~pathCache[k].isNull =>
              LET path == pathCache[k].path
                  index == pathCache[k].pointToIndex
                  members == StartPaths(subpathCache, k \div maxKey)
              IN  /\ WellFormedPath(path, CellOf(k \div maxKey), CellOf(k % maxKey))
                  /\ \E i \in 1..Len(members) : members[i] = k
                  /\ \A i \in 1..Len(path) :
                        /\ encodeKey(path[i].x, path[i].y) \in DOMAIN index
                        /\ index[encodeKey(path[i].x, path[i].y)] = i - 1
                  /\ Cardinality(DOMAIN index) = Len(path)
    /\ \A startKey \in DOMAIN subpathCache :
          LET members == subpathCache[startKey]
          IN  /\ members # << >>
              /\ \A i \in 1..Len(members) :
                    /\ members[i] \in DOMAIN pathCache
                    /\ ~pathCache[members[i]].isNull
                    /\ pathCache[members[i]].path[1] = CellOf(startKey)
                    /\ \A j \in 1..Len(members) : members[j] = members[i] => j = i

\* Two paths of several cells are cached, from one start or from two.
C28_Witness ==
    /\ numCalls = 2 /\ last.op = "findPath" /\ last.served = "search"
    /\ Cardinality({k \in DOMAIN pathCache :
                       ~pathCache[k].isNull /\ Len(pathCache[k].path) >= 3}) = 2

\* C29: no findPath call, however it is answered, changes a path that is
\* in the exact cache: every entry stays, with the same points and the same
\* index map; and the array the previous call returned out of the cache
\* still has the points it was returned with.  The search that runs in
\* between overwrites the reused pathArray and recycles the pool's nodes.
C29_CachedImmutable ==
    [][last'.op = "findPath" =>
          /\ \A k \in DOMAIN pathCache :
                /\ k \in DOMAIN pathCache'
                /\ pathCache'[k].isNull = pathCache[k].isNull
                /\ pathCache'[k].path = pathCache[k].path
                /\ pathCache'[k].pointToIndex = pathCache[k].pointToIndex
          /\ (last.op = "findPath" /\ last.shared) =>
                pathCache'[CacheKeyOf(last.start, last.end)].path = last.result.path]_vars

\* A second search has rebuilt pathArray and reused the pool's nodes while
\* a path of several cells, cached by the first, is in the cache.
C29_Witness ==
    /\ numCalls = 2 /\ LastFound /\ last.served = "search"
    /\ Len(pathArray) >= 3 /\ nodePoolIndex >= 3
    /\ \E k \in DOMAIN pathCache :
          /\ ~pathCache[k].isNull
          /\ Len(pathCache[k].path) >= 3
          /\ pathCache[k].path # pathArray

\* C30: the array a search or an exact-cache hit returns is the cached
\* entry's own path array, and the array a subpath hit returns is a new
\* one.  So when the caller changes the array in place: after a search or
\* an exact hit the next findPath for the pair returns the changed array,
\* and a subpath hit that this entry alone serves returns a slice of the
\* changed array; after a subpath hit the caches stay as they were.
C30_Aliasing ==
    [][/\ (last'.op = "findPath" /\ last'.result.found) =>
             /\ last'.shared <=> (last'.served \in {"search", "exact"})
             /\ last'.shared =>
                   pathCache'[CacheKeyOf(last'.start, last'.end)].path = last'.result.path
       /\ last'.op = "mutate" =>
             IF last.served \in {"search", "exact"}
             THEN /\ LET again == findPath(Engine', last.start, last.end)
                     IN  /\ again.served = "exact" /\ again.shared
                         /\ again.result.path = last'.result.path
                  /\ \A b \in Grid :
                        (/\ CacheKeyOf(last.start, b) \notin DOMAIN pathCache
                         /\ StartPaths(subpathCache, encodeKey(last.start.x, last.start.y))
                               = <<CacheKeyOf(last.start, last.end)>>
                         /\ encodeKey(b.x, b.y) \in
                               DOMAIN pathCache[CacheKeyOf(last.start, last.end)].pointToIndex)
                        => LET sub == findPath(Engine', last.start, b)
                               at == pathCache[CacheKeyOf(last.start, last.end)]
                                         .pointToIndex[encodeKey(b.x, b.y)]
                           IN  /\ sub.served = "subpath" /\ ~sub.shared
                               /\ sub.result.path = slice(last'.result.path, 0, at + 1)
             ELSE /\ last.served = "subpath"
                  /\ UNCHANGED <<caches, scratch>>]_vars

\* The caller has changed the array a search or an exact hit returned: the
\* cached path is no longer the path its index map was built for, and it
\* is what the next call for the pair returns.
C30_Witness ==
    /\ last.op = "mutate" /\ last.served \in {"search", "exact"}
    /\ Cardinality(DOMAIN pathCache[CacheKeyOf(last.start, last.end)].pointToIndex) >= 3
    /\ pointToIndexOf(last.result.path)
          # pathCache[CacheKeyOf(last.start, last.end)].pointToIndex
    /\ Following(last.start, last.end).result.path = last.result.path

\* The caller has changed the array a subpath hit returned.
C30_WitnessFresh ==
    /\ last.op = "mutate" /\ last.served = "subpath"
    /\ Len(last.result.path) >= 1
    /\ \E k \in DOMAIN pathCache : Len(pathCache[k].path) >= 3

\* C31: after clearCache() the engine answers every query as a newly
\* constructed engine of the same configuration does: the same result, by
\* the same branch, with the same getStepCost invocations and the same
\* dequeues, whatever queries ran before the clear and whatever they left
\* in the heap, the open and closed sets, the node map and the pool.
C31_ClearedLikeFresh ==
    [][last'.op = "clearCache" =>
          \A q \in Queries :
              \A cleared \in {findPath(Engine', q[1], q[2])},
                 fresh \in {findPath(NewEngine, q[1], q[2])} :
                  /\ cleared.result = fresh.result
                  /\ cleared.served = fresh.served
                  /\ cleared.calls = fresh.calls
                  /\ cleared.served = "search" => cleared.trace = fresh.trace]_vars

\* clearCache was called after a search that left entries in the heap,
\* closed cells and pool nodes with costs and parents behind, on a grid
\* where a search from the far corner finds a path of several cells.
C31_Witness ==
    /\ last.op = "clearCache"
    /\ openList # << >> /\ Cardinality(closedSet) >= 2 /\ Len(nodePool) >= 4
    /\ \E i \in 1..Len(nodePool) : nodePool[i].parent # Null /\ nodePool[i].g > 0
    /\ LET r == Following(FarCorner, Origin)
       IN  r.served = "search" /\ r.result.found /\ Len(r.result.path) >= 3

\* C32: a findPath call that runs the search returns, for every grid and
\* every step-cost function: each iteration of its loop dequeues one heap
\* entry, every open cell has exactly one heap entry, which it got when it
\* was discovered, and no search dequeues more entries than the grid has
\* cells.
C32_Terminates ==
    /\ [](last.op = "searching" =>
             /\ Len(last.trace.popped) <= maxKey
             /\ Len(last.trace.popped) + Len(openList) <= maxKey
             /\ Len(openList) = Cardinality(openSet))
    /\ [](last.op = "findPath" => Len(last.trace.popped) <= maxKey)
    /\ [][last.op = "searching" =>
             /\ last'.op \in {"searching", "findPath"}
             /\ openList # << >> =>
                   /\ Len(last'.trace.popped) = Len(last.trace.popped) + 1
                   /\ Len(openList') = Len(openList) - 1
                                           + Cardinality(openSet' \ openSet)]_vars
    /\ (last.op = "searching") ~> (last.op = "findPath")

\* A search dequeued as many entries as the grid has cells, on a grid of
\* several cells, and returned.
C32_Witness ==
    /\ last.op = "findPath" /\ last.served = "search"
    /\ maxKey >= 6
    /\ Len(last.trace.popped) = maxKey

\* The nodes reached from the node id along parent links, id first, cut
\* off after fuel nodes.
RECURSIVE ChainFrom(_, _)
ChainFrom(id, fuel) ==
    IF id = Null \/ fuel = 0 THEN << >>
    ELSE <<id>> \o ChainFrom(nodePool[id + 1].parent, fuel - 1)

Distinct(seq) == \A i, j \in 1..Len(seq) : i # j => seq[i] # seq[j]

\* C33: no returned path visits a cell twice.  At every moment of a search
\* and after it, the parent links from the node of each cell that is open,
\* closed or was dequeued form a chain without a repeated node that ends
\* at the start node, the first node acquired, whose parent is null, and
\* that runs through closed cells; and the path a search returns is the
\* chain of the end node, reversed.
C33_Acyclic ==
    /\ LastFound => Distinct(last.result.path)
    /\ \A k \in openSet \cup closedSet
                 \cup {last.trace.popped[i].key : i \in 1..Len(last.trace.popped)} :
          \A chain \in {ChainFrom(nodeMap[k], maxKey + 1)} :
              /\ Len(chain) <= maxKey
              /\ Distinct(chain)
              /\ chain[Len(chain)] = 0
              /\ nodePool[1].parent = Null
              /\ \A i \in 2..Len(chain) :
                    getKey(nodePool[chain[i] + 1]) \in closedSet
    /\ (LastFound /\ last.served = "search") =>
          \A chain \in {ChainFrom(nodeMap[encodeKey(last.end.x, last.end.y)], maxKey + 1)} :
              /\ Len(last.result.path) = Len(chain)
              /\ \A i \in 1..Len(chain) :
                    last.result.path[Len(chain) + 1 - i]
                        = Point(nodePool[chain[i] + 1].x, nodePool[chain[i] + 1].y)

\* Over steps of cost 0 or less, where going round in a circle costs
\* nothing, a search returned a path of four cells or more.
C33_Witness ==
    /\ LastFound /\ last.served = "search"
    /\ stepCostKind \in {"free", "refund"}
    /\ Len(last.result.path) >= 4

\* The cells of the nodes of chain, last node first.
RECURSIVE CellsBack(_)
CellsBack(chain) ==
    IF chain = << >> THEN << >>
    ELSE Append(CellsBack(Tail(chain)),
                Point(nodePool[Head(chain) + 1].x, nodePool[Head(chain) + 1].y))

\* C34: when a search returns a path, the g of the end node is the sum,
\* over the path's consecutive moves, of the move's step cost times
\* DIAGONAL_COST if the move changes both x and y and times 1 otherwise,
\* and the g of the start node is 0.  During the search the same holds of
\* every open, closed or dequeued node and the route its parent links give.
C34_CostAccounting ==
    /\ (LastFound /\ last.served = "search") =>
          /\ nodePool[nodeMap[encodeKey(last.end.x, last.end.y)] + 1].g
                = PathCost(last.result.path)
          /\ last.trace.popped[Len(last.trace.popped)].g = PathCost(last.result.path)
          /\ nodePool[nodeMap[encodeKey(last.start.x, last.start.y)] + 1].g = 0
    /\ \A k \in openSet \cup closedSet
                 \cup {last.trace.popped[i].key : i \in 1..Len(last.trace.popped)} :
          nodePool[nodeMap[k] + 1].g
              = PathCost(CellsBack(ChainFrom(nodeMap[k], maxKey + 1)))

\* A search over unequal step costs returned a path with a diagonal and a
\* cardinal move.
C34_Witness ==
    /\ LastFound /\ last.served = "search"
    /\ stepCostKind = "road"
    /\ \E i, j \in 1..(Len(last.result.path) - 1) :
          /\ StepOf(last.result.path, i)[1] # 0 /\ StepOf(last.result.path, i)[2] # 0
          /\ 0 \in {StepOf(last.result.path, j)[1], StepOf(last.result.path, j)[2]}
          /\ getStepCost(last.result.path[i], last.result.path[i + 1])
                # getStepCost(last.result.path[j], last.result.path[j + 1])

\* C35: findPath is not re-entrant.  When the step-cost callback of a
\* call that runs the search calls findPath on the same instance and that
\* inner call runs a search too, the inner search clears the outer one's
\* heap, sets and node map and takes the pool's nodes from the first one
\* on, and the outer call goes on with what the inner one left: the cells
\* the inner search closed stay closed and the pool cursor goes on from
\* where the inner search stopped.  When the inner call is answered without
\* a search, or is never made, the outer call does what it does alone.
C35_Reentrancy ==
    [][last'.op = "reentered" =>
          \A alone \in {findPath(Engine, last'.start, last'.end)} :
              IF last'.nested.served = "search"
              THEN /\ last'.nested.closedSet \subseteq closedSet'
                   /\ last'.nested.nodes >= 1
                   /\ nodePoolIndex' >= last'.nested.nodes
                   /\ Len(nodePool') >= last'.nested.nodes
              ELSE /\ last'.result = alone.result
                   /\ last'.calls = alone.calls
                   /\ last'.trace = alone.trace
                   /\ closedSet' = alone.eng.closedSet
                   /\ openList' = alone.eng.openList
                   /\ nodePool' = alone.eng.nodePool]_vars

\* The outer call returned a path, and not the path it returns when the
\* inner call is made after it: the hazard.
C35_Witness ==
    /\ last.op = "reentered" /\ numCalls = 1
    /\ last.nested.served = "search"
    /\ last.result.found
    /\ findPath(NewEngine, last.start, last.end).result.found
    /\ last.result # findPath(NewEngine, last.start, last.end).result

\* The outer call returned not-found for an end it reaches alone.
C35_WitnessNotFound ==
    /\ last.op = "reentered" /\ numCalls = 1
    /\ last.nested.served = "search"
    /\ ~last.result.found /\ last.served = "search"
    /\ findPath(NewEngine, last.start, last.end).result.found

\* The parent links the two searches wrote lead round in a circle, and the
\* loop of reconstructPath does not end.
C35_WitnessDiverges ==
    /\ last.op = "reentered" /\ last.served = "diverges"

\* The inner call was answered from a cache and the outer call ran as it
\* does alone.
C35_WitnessHarmless ==
    /\ last.op = "reentered" /\ last.nested.served \in {"exact", "subpath"}
    /\ last.result.found /\ Len(last.result.path) >= 3

\* Line 146: the key of the exact cache for a start and an end.
exactCacheKey(start, end) ==
    encodeKey(start.x, start.y) * maxKey + encodeKey(end.x, end.y)

\* C36: the key encoding is injective.  The cells of the grid have as many
\* keys y * width + x as there are cells, all of them in [0, width*height),
\* and the pairs of cells have as many exact-cache keys
\* startKey * (width*height) + endKey as there are pairs; so each key the
\* engine holds, in a cache, a set or the node map, names one cell or one
\* pair of cells.
C36_KeysInjective ==
    /\ width >= 1 /\ height >= 1 /\ maxKey = width * height
    /\ Cardinality({encodeKey(c.x, c.y) : c \in Cells(width, height)}) = width * height
    /\ \A c \in Cells(width, height) :
           encodeKey(c.x, c.y) >= 0 /\ encodeKey(c.x, c.y) < width * height
    /\ Cardinality({exactCacheKey(q[1], q[2]) : q \in Cells(width, height) \X Cells(width, height)})
           = (width * height) * (width * height)
    /\ \A k \in DOMAIN pathCache :
           Cardinality({q \in Cells(width, height) \X Cells(width, height) :
                           exactCacheKey(q[1], q[2]) = k}) = 1
    /\ \A k \in (DOMAIN nodeMap) \cup openSet \cup closedSet \cup DOMAIN subpathCache :
           Cardinality({c \in Cells(width, height) : encodeKey(c.x, c.y) = k}) = 1
    /\ \A k \in DOMAIN nodeMap :
           encodeKey(NodeOf([nodePool |-> nodePool, overflow |-> EmptyMap], nodeMap[k]).x,
                     NodeOf([nodePool |-> nodePool, overflow |-> EmptyMap], nodeMap[k]).y) = k

\* On a grid with more than one row and more than one column, calls with
\* different starts have left entries in the exact cache, and a search has
\* filled the node map.
C36_Witness ==
    /\ width > 1 /\ height > 1 /\ width # height
    /\ Cardinality(DOMAIN pathCache) >= 2
    /\ Cardinality(DOMAIN subpathCache) >= 2
    /\ Cardinality(DOMAIN nodeMap) >= 3

\* C37: the pool retains at most PoolCap node records.  A search that
\* needs more is given new records that the pool does not keep: they are
\* the acquisitions from the PoolCap-th on and the call alone holds them.
\* The pool never gets shorter, neither when a call starts or ends nor
\* when clearCache is called.
C37_PoolBound ==
    /\ [](Len(nodePool) <= PoolCap)
    /\ [](last.op = "searching" =>
             /\ DOMAIN last.overflow = {id \in 0..(nodePoolIndex - 1) : id >= PoolCap}
             /\ Len(nodePool) >= (IF nodePoolIndex < PoolCap THEN nodePoolIndex ELSE PoolCap))
    /\ [][Len(nodePool') >= Len(nodePool)]_vars

\* A search has used more nodes than the pool retains, the pool is full,
\* and the call has returned.
C37_Witness ==
    /\ last.op = "findPath" /\ last.served = "search" /\ ~last.result.found
    /\ nodePoolIndex > PoolCap
    /\ Len(nodePool) = PoolCap
    /\ Cardinality(closedSet) > PoolCap

\* clearCache was called on a full pool.
C37_WitnessCleared ==
    /\ last.op = "clearCache"
    /\ Len(nodePool) = PoolCap
    /\ pathCache = EmptyMap

\* C38: while a search runs, every node it acquires is a record that no
\* earlier acquisition of the search returned, with the fields
\* {x, y, g = 0, h = 0, f = 0, parent = null}.  The acquisitions are
\* numbered from 0: the node map gives each discovered cell one of them
\* and no two cells the same, an iteration gives the cells it discovers
\* numbers that were not in use, and the next acquisition, for any cell,
\* returns a reset record and leaves the records acquired so far as they
\* are, also when the pool holds PoolCap records and the record is new.
C38_FreshNodes ==
    /\ [](last.op = "searching" =>
             /\ Cardinality(DOMAIN nodeMap) = nodePoolIndex
             /\ {nodeMap[k] : k \in DOMAIN nodeMap} = 0..(nodePoolIndex - 1)
             /\ \A c \in {Origin, FarCorner} :
                    \A t \in {getNode(InFlight, c.x, c.y)},
                       held \in {IF nodePoolIndex < Len(nodePool)
                                 THEN nodePoolIndex ELSE Len(nodePool)} :
                        /\ NodeOf(t, nodePoolIndex) = NewNode(c.x, c.y)
                        /\ t.nodePoolIndex = nodePoolIndex + 1
                        /\ SubSeq(t.nodePool, 1, held) = SubSeq(nodePool, 1, held)
                        /\ \A id \in DOMAIN last.overflow :
                               t.overflow[id] = last.overflow[id])
    /\ [][last.op = "searching" /\ last'.op = "searching" =>
             /\ DOMAIN nodeMap \subseteq DOMAIN nodeMap'
             /\ \A k \in (DOMAIN nodeMap') \ (DOMAIN nodeMap) :
                    /\ nodeMap'[k] >= nodePoolIndex /\ nodeMap'[k] < nodePoolIndex'
                    /\ \A node \in {IF nodeMap'[k] < Len(nodePool')
                                    THEN nodePool'[nodeMap'[k] + 1]
                                    ELSE last'.overflow[nodeMap'[k]]} :
                           encodeKey(node.x, node.y) = k]_vars

\* A search that follows another one has been given the pool's records
\* again, has filled the pool, and holds a new record beyond it.
C38_Witness ==
    /\ last.op = "searching"
    /\ numCalls >= 2
    /\ Len(nodePool) = PoolCap
    /\ nodePoolIndex > PoolCap
    /\ DOMAIN last.overflow # {}
    /\ Cardinality(DOMAIN nodeMap) = nodePoolIndex

\* C39: after every enqueue, dequeue and clear the backing array is a
\* heap under the comparator: for no index i > 0 does the comparator rank
\* the entry at i strictly before the entry at its parent
\* floor((i - 1) / 2).
C39_HeapOrder ==
    \A i \in 1..(Len(queue) - 1) :
        ~(compare(queue[i + 1].priority, queue[(i - 1) \div 2 + 1].priority) < 0)

\* An enqueue has carried its entry from the third level of the heap up to
\* the root.
C39_Witness ==
    /\ pqLast.op = "enqueue" /\ pqLast.before >= 3
    /\ queue[1].item = Len(enqueued)
    /\ compare(queue[1].priority, queue[2].priority) < 0

\* A dequeue from five or more entries has left a heap of three levels
\* whose root ranks strictly before entries of the two levels below it.
C39_WitnessDequeue ==
    /\ pqLast.op = "dequeue" /\ pqLast.before >= 5
    /\ compare(queue[1].priority, queue[3].priority) < 0
    /\ compare(queue[1].priority, queue[4].priority) < 0
    /\ \E r \in {dequeue(queue)} : r.items # << >>

\* A clear has discarded entries and the queue holds entries of different
\* rank again.
C39_WitnessClear ==
    /\ clears >= 1 /\ stale # {} /\ Len(queue) >= 2
    /\ compare(queue[1].priority, queue[2].priority) < 0

====
